---- MODULE Spec2Model ----
(***************************************************************************)
(* Model of the circuit board of rls (src/src/board.rs): the wire tile     *)
(* index (wire_nodes), the wire registry (board.wires), the circuit tile   *)
(* index and registry, and the board mutation operations place_wire_part,  *)
(* try_toggle_node_intersection, remove_intersection,                      *)
(* create_wire_intersection and place_circuit.                             *)
(*                                                                         *)
(* A board value is the record                                             *)
(*   [wire_nodes, circuit_nodes, wires, circuits, pin_wire, updates,       *)
(*    intervals, pc]                                                       *)
(* and every operation of board.rs is an operator from boards to boards    *)
(* (or to sets of boards where the code iterates a HashSet or breaks a     *)
(* tie).  pc is "ready" while the operation returns normally; "diverged",  *)
(* "deadlock" and "panic" record that the call never returned.             *)
(***************************************************************************)
EXTENDS Integers, Sequences, FiniteSets, TLC

VARIABLES wire_nodes, circuit_nodes, wires, circuits, pin_wire, pc, last, nops,
          lock, call, seen, pin_state, wire_state, wire_queue, updates, intervals,
          loading, description

vars == <<wire_nodes, circuit_nodes, wires, circuits, pin_wire, pc, last, nops,
          lock, call, seen, pin_state, wire_state, wire_queue, updates, intervals,
          loading, description>>

\* the signal state: the value every circuit state keeps for its pins, the
\* value of every wire, and the wires marked for recomputation
sigvars == <<pin_state, wire_state, wire_queue>>

(* ---------------------------- bounds ----------------------------------- *)
GridW == 5
GridH == 5
RegW == 3
RegH == 3
MaxCircuits == 1
FixLimit == 10
MaxOps == 4
MaxOpsLong == 5
JoinW == 3
JoinH == 2
MaxOpsJoin == 6
MaxOpsLock == 3
MaxQueue == 2
MaxCircuitsMany == 2
MaxOpsCircuits == 3
MaxInterval == 1
MaxOpsReload == 3

(* --------------------------- basic data -------------------------------- *)
None == -1
NoPin == <<None, None>>
Grid == (0 .. GridW - 1) \X (0 .. GridH - 1)

\* WireNode::default(): no wire, both distance pointers 0.
EmptyNode == [wire |-> None, left |-> 0, up |-> 0]

\* CircuitNode::default(): no circuit.
EmptyCircuitNode == [circuit |-> None, origin_dist |-> <<0, 0>>]

\* pos + [i, 0] or pos + [0, i]
Step(pos, vertical, i) ==
    IF vertical THEN <<pos[1], pos[2] + i>> ELSE <<pos[1] + i, pos[2]>>

Pointer(node, vertical) == IF vertical THEN node.up ELSE node.left

SetPointer(node, vertical, v) ==
    IF vertical THEN [node EXCEPT !.up = v] ELSE [node EXCEPT !.left = v]

\* the length of the store in place of its first free index
first_free_pos_len(f) == Cardinality(DOMAIN f)

\* FixedVec::first_free_pos: the lowest index holding no item.
first_free_pos(f) ==
    CHOOSE i \in 0 .. Cardinality(DOMAIN f) :
        /\ i \notin DOMAIN f
        /\ \A j \in 0 .. (i - 1) : j \in DOMAIN f

\* HashMap::insert / HashMap::remove on a function with a finite domain.
MapInsert(f, k, v) == [x \in (DOMAIN f) \cup {k} |-> IF x = k THEN v ELSE f[x]]
MapRemove(f, k) == [x \in (DOMAIN f) \ {k} |-> f[x]]

EmptyMap == [x \in {} |-> 0]

\* The not gate preview (default direction Right): size [2, 1],
\* pin 0 "in" at [0, 0], pin 1 "out" at [1, 0].
NotSize == <<2, 1>>
NotPins == << <<0, 0>>, <<1, 0>> >>

Stuck(b, why) == [b EXCEPT !.pc = why]

(* ------------------------ pin_at, set_wire ------------------------------ *)
\* CircuitPin::set_wire: store the new wire id in the pin.
set_wire(b, pin, wire) ==
    IF pin = NoPin \/ pin \notin DOMAIN b.pin_wire THEN b
    ELSE [b EXCEPT !.pin_wire[pin] = wire]

\* `.find(|p| p.pos == pos)` over the pins of a circuit
find_pin(cid, pins, pos) ==
    IF \A i \in 1 .. Len(pins) : pins[i] # pos THEN NoPin
    ELSE <<cid, (CHOOSE i \in 1 .. Len(pins) :
                    /\ pins[i] = pos
                    /\ \A j \in 1 .. (i - 1) : pins[j] # pos) - 1>>

\* pin_at: the pin of the circuit covering pos whose local position is the
\* tile's origin_dist.
pin_at(b, pos) ==
    IF b.circuit_nodes[pos].circuit = None THEN NoPin
    ELSE IF b.circuit_nodes[pos].circuit \notin DOMAIN b.circuits THEN NoPin
    ELSE find_pin(b.circuit_nodes[pos].circuit,
                  b.circuits[b.circuit_nodes[pos].circuit].pins,
                  b.circuit_nodes[pos].origin_dist)

\* pin_at takes the board read lock exactly when the tile is covered by a
\* circuit (the two `?` before board.read() return early otherwise).
pin_at_locks(b, pos) == b.circuit_nodes[pos].circuit # None

(* --------------------- Wire::add_point / remove_point ------------------- *)
\* Wire::add_point: insert the point and attach the pin to this wire.
add_point(b, w, pos, left, up, pin) ==
    set_wire([b EXCEPT !.wires[w] =
                 MapInsert(@, pos, [left |-> left, up |-> up, pin |-> pin])],
             pin, w)

\* Wire::remove_point: remove the point and detach its pin.
remove_point(b, w, pos) ==
    IF pos \notin DOMAIN b.wires[w] THEN b
    ELSE set_wire([b EXCEPT !.wires[w] = MapRemove(@, pos)],
                  b.wires[w][pos].pin, None)

(* ------------------------ find_node_from_node --------------------------- *)
NotFound == [found |-> FALSE, wire |-> None, pos |-> <<0, 0>>, distance |-> 0]

Found(target, target_pos, distance) ==
    IF target.wire = None THEN NotFound
    ELSE [found |-> TRUE, wire |-> target.wire, pos |-> target_pos,
          distance |-> distance]

\* the `for i in 1..` loop of the forward search
RECURSIVE find_forward(_, _, _, _, _)
find_forward(nodes, pos, vertical, start, i) ==
    IF Step(pos, vertical, i) \notin Grid THEN NotFound
    ELSE IF Pointer(nodes[Step(pos, vertical, i)], vertical) # start + i THEN NotFound
    ELSE IF nodes[Step(pos, vertical, i)].wire # None
         THEN Found(nodes[Step(pos, vertical, i)], Step(pos, vertical, i), i)
         ELSE find_forward(nodes, pos, vertical, start, i + 1)

find_backward(nodes, pos, vertical, pointer) ==
    IF pointer = 0 THEN NotFound
    ELSE IF Step(pos, vertical, 0 - pointer) \notin Grid THEN NotFound
    ELSE Found(nodes[Step(pos, vertical, 0 - pointer)],
               Step(pos, vertical, 0 - pointer), pointer)

find_node_from_node(nodes, node, pos, vertical, forward) ==
    IF forward
    THEN find_forward(nodes, pos, vertical,
                      IF node.wire # None THEN 0 ELSE Pointer(node, vertical), 1)
    ELSE find_backward(nodes, pos, vertical, Pointer(node, vertical))

(* ----------------------------- wires_at --------------------------------- *)
TileNone == [tag |-> "None", wire |-> None, dir |-> "None", left |-> None, up |-> None]

\* the final `match (left, up)` of wires_at_node
TileWires(left, up) ==
    IF left = None /\ up = None THEN TileNone
    ELSE IF left = None
         THEN [TileNone EXCEPT !.tag = "One", !.wire = up, !.dir = "Up"]
    ELSE IF up = None
         THEN [TileNone EXCEPT !.tag = "One", !.wire = left, !.dir = "Left"]
    ELSE [TileNone EXCEPT !.tag = "Two", !.left = left, !.up = up]

\* the wire of the tile `pointer` steps back, None when the pointer is 0
PointedWire(nodes, pos, vertical, pointer) ==
    IF pointer = 0 \/ Step(pos, vertical, 0 - pointer) \notin Grid THEN None
    ELSE nodes[Step(pos, vertical, 0 - pointer)].wire

\* a wires_at_node that reports one wire where both pointers lead to the same
wires_at_node_joined(nodes, pos, node) ==
    IF node.wire # None
    THEN [TileNone EXCEPT !.tag = "One", !.wire = node.wire]
    ELSE IF PointedWire(nodes, pos, FALSE, node.left) = PointedWire(nodes, pos, TRUE, node.up)
    THEN TileWires(PointedWire(nodes, pos, FALSE, node.left), None)
    ELSE TileWires(PointedWire(nodes, pos, FALSE, node.left),
                   PointedWire(nodes, pos, TRUE, node.up))

wires_at_node(nodes, pos, node) ==
    IF node.wire # None
    THEN [TileNone EXCEPT !.tag = "One", !.wire = node.wire]
    ELSE TileWires(PointedWire(nodes, pos, FALSE, node.left),
                   PointedWire(nodes, pos, TRUE, node.up))

wires_at(nodes, pos) ==
    IF pos \notin Grid THEN TileNone ELSE wires_at_node(nodes, pos, nodes[pos])

\* the wire ids a TileWires value holds
TileWireSet(tw) ==
    IF tw.tag = "One" THEN {tw.wire}
    ELSE IF tw.tag = "Two" THEN {tw.left, tw.up}
    ELSE {}

(* ---------------------------- set_wire_point ----------------------------- *)
\* The loop of fix_pointers.  `let pos = pos + dir;` inside the loop shadows
\* the parameter, so every iteration reads and writes the one tile next to
\* the changed position; only i advances.  The loop leaves when the pointer
\* differs from from + i or the tile is an anchor.  When neither ever
\* happens (the pointer written in iteration i is the one expected in
\* iteration i + 1) the loop does not end: FixLimit iterations stand for it.
RECURSIVE fix_loop(_, _, _, _, _, _)
fix_loop(node, vertical, from, to, increment_to, i) ==
    IF Pointer(node, vertical) # from + i
    THEN [node |-> node, diverged |-> FALSE]
    ELSE IF node.wire # None
    THEN [node |-> SetPointer(node, vertical, IF increment_to THEN to + i ELSE to),
          diverged |-> FALSE]
    ELSE IF i >= FixLimit
    THEN [node |-> node, diverged |-> TRUE]
    ELSE fix_loop(SetPointer(node, vertical, IF increment_to THEN to + i ELSE to),
                  vertical, from, to, increment_to, i + 1)

fix_store(nodes, npos, r) ==
    [nodes |-> [nodes EXCEPT ![npos] = r.node], diverged |-> r.diverged]

fix_pointers(nodes, pos, vertical, from, to, possibly_remove) ==
    IF Step(pos, vertical, 1) \notin Grid
    THEN [nodes |-> nodes, diverged |-> FALSE]
    ELSE fix_store(nodes, Step(pos, vertical, 1),
                   fix_loop(nodes[Step(pos, vertical, 1)], vertical, from, to,
                            to > 0 \/ ~possibly_remove, 1))

\* the fix_pointers call of set_wire_point for one axis: (pointer, 0, false)
\* when a wire is set, (0, pointer, true) when it is cleared
fix_axis(f, pos, vertical, wire, pointer) ==
    IF f.diverged THEN f
    ELSE IF wire # None
         THEN fix_pointers(f.nodes, pos, vertical, pointer, 0, FALSE)
         ELSE fix_pointers(f.nodes, pos, vertical, 0, pointer, TRUE)

\* `wire.remove_point(pos, ..)` on the previous wire, when it exists
set_wire_point_remove(b, pos, prev_wire) ==
    IF prev_wire # None /\ prev_wire \in DOMAIN b.wires
    THEN remove_point(b, prev_wire, pos)
    ELSE b

\* `wire.add_point(pos, .., left > 0, up > 0, self.pin_at(pos))` on the new
\* wire, when it exists; the board write guard is held while pin_at runs
set_wire_point_add(b, pos, wire, node) ==
    IF wire # None /\ wire \in DOMAIN b.wires
    THEN IF pin_at_locks(b, pos) THEN Stuck(b, "deadlock")
         ELSE add_point(b, wire, pos, node.left > 0, node.up > 0, pin_at(b, pos))
    ELSE b

set_wire_point_fixed(b, pos, wire, node, f) ==
    IF f.diverged THEN Stuck(b, "diverged")
    ELSE set_wire_point_add(
             set_wire_point_remove([b EXCEPT !.wire_nodes = f.nodes], pos, node.wire),
             pos, wire, node)

set_wire_point_node(b, pos, wire, node) ==
    IF node.wire = wire THEN b
    ELSE set_wire_point_fixed(b, pos, wire, node,
             fix_axis(fix_axis([nodes |-> [b.wire_nodes EXCEPT ![pos].wire = wire],
                                diverged |-> FALSE],
                               pos, FALSE, wire, node.left),
                      pos, TRUE, wire, node.up))

\* set_wire_point(pos, wire, update_state): the board and the previous wire id
set_wire_point(b, pos, wire) ==
    IF b.pc # "ready" THEN [b |-> b, prev |-> None]
    ELSE [b |-> set_wire_point_node(b, pos, wire, b.wire_nodes[pos]),
          prev |-> b.wire_nodes[pos].wire]

(* ------------------------------ merge_wires ----------------------------- *)
\* a set_node_wires that leaves the tiles as they are
set_node_wires_skipped(b, positions, wire) == b

\* set_node_wires(positions, wire): write the wire id into the given tiles
set_node_wires(b, positions, wire) ==
    [b EXCEPT !.wire_nodes =
        [p \in Grid |-> IF p \in positions THEN [@[p] EXCEPT !.wire = wire] ELSE @[p]]]

\* the pins of the points of a point map
PinsOf(points) == {points[p].pin : p \in DOMAIN points} \ {NoPin}

\* CircuitBoard::merge_wires(id, with, update_states): `with` is removed
\* from the registry and the pins of its points are pointed at id; the
\* points themselves are dropped with the removed wire.
CircuitBoard_merge_wires(b, id, with) ==
    IF id \notin DOMAIN b.wires THEN b
    ELSE IF with \notin DOMAIN b.wires THEN b
    ELSE [b EXCEPT !.wires = MapRemove(@, with),
                   !.pin_wire = [q \in DOMAIN @ |->
                                    IF q \in PinsOf(b.wires[with]) THEN id ELSE @[q]]]

\* ActiveCircuitBoard::merge_wires(wire, with, update_state)
merge_wires(b, wire, with) ==
    IF b.pc # "ready" THEN b
    ELSE IF with \notin DOMAIN b.wires THEN b
    ELSE IF wire \notin DOMAIN b.wires \/ wire = with THEN b
    ELSE CircuitBoard_merge_wires(
             set_node_wires(b, DOMAIN b.wires[with], wire), wire, with)

(* -------------------- create_wire_intersection[_at_node] ---------------- *)
\* `board.wires.get(w).map(|w| w.points.len())`
points_len(b, w) ==
    IF w \in DOMAIN b.wires THEN Cardinality(DOMAIN b.wires[w]) ELSE None

\* `match (left_nodes, up_nodes) { (Some(un), Some(ln)) => .. }`: un is the
\* number of points of the left wire l, ln that of the up wire u
intersection_merge(b, u, l, un, ln) ==
    IF un = None \/ ln = None THEN [b |-> b, w |-> None]
    ELSE IF un > ln THEN [b |-> merge_wires(b, u, l), w |-> u]
    ELSE [b |-> merge_wires(b, l, u), w |-> l]

\* the closure of `wire.or_else(..)`
intersection_wire(b, fu, fl) ==
    IF ~fu.found /\ ~fl.found THEN [b |-> b, w |-> None]
    ELSE IF ~fu.found THEN [b |-> b, w |-> fl.wire]
    ELSE IF ~fl.found THEN [b |-> b, w |-> fu.wire]
    ELSE intersection_merge(b, fu.wire, fl.wire,
                            points_len(b, fl.wire), points_len(b, fu.wire))

intersection_set(picked, pos) ==
    IF picked.w = None THEN [b |-> picked.b, ret |-> None]
    ELSE [b |-> set_wire_point(picked.b, pos, picked.w).b, ret |-> picked.w]

create_wire_intersection_at_node(b, pos, node, wire) ==
    IF b.pc # "ready" THEN [b |-> b, ret |-> None]
    ELSE IF node.wire # None \/ (node.up = 0 /\ node.left = 0)
    THEN [b |-> b, ret |-> node.wire]
    ELSE intersection_set(
             IF wire # None THEN [b |-> b, w |-> wire]
             ELSE intersection_wire(
                      b,
                      find_node_from_node(b.wire_nodes, node, pos, TRUE, FALSE),
                      find_node_from_node(b.wire_nodes, node, pos, FALSE, FALSE)),
             pos)

create_wire_intersection(b, pos, wire) ==
    IF pos \notin Grid THEN [b |-> b, ret |-> None]
    ELSE create_wire_intersection_at_node(b, pos, b.wire_nodes[pos], wire)

(* ------------------------------ split_wire ------------------------------ *)
NoPos == <<None, None>>

\* the signed distance of search_wire_point from `from` to p along the axis
search_dist(p, from, vertical, inverse) ==
    IF vertical
    THEN (IF inverse THEN from[2] - p[2] ELSE p[2] - from[2])
    ELSE (IF inverse THEN from[1] - p[1] ELSE p[1] - from[1])

search_candidates(nodes, from, vertical, inverse) ==
    {p \in nodes : /\ (IF vertical THEN p[1] = from[1] ELSE p[2] = from[2])
                   /\ search_dist(p, from, vertical, inverse) > 0}

search_min(cand, from, vertical, inverse) ==
    IF cand = {} THEN NoPos
    ELSE CHOOSE p \in cand :
             \A q \in cand : search_dist(p, from, vertical, inverse)
                             <= search_dist(q, from, vertical, inverse)

\* search_wire_point: the key on the same row (column, when vertical) that is
\* nearest to `from` on the side chosen by `inverse`.
search_wire_point(nodes, from, vertical, inverse) ==
    search_min(search_candidates(nodes, from, vertical, inverse),
               from, vertical, inverse)

\* `if let Some(r) = ref_right { .. p.left = false }`
clear_left(pts, r) == IF r # NoPos THEN [pts EXCEPT ![r].left = FALSE] ELSE pts

\* `if let Some(r) = ref_down { .. p.up = false }`
clear_up(pts, r) == IF r # NoPos THEN [pts EXCEPT ![r].up = FALSE] ELSE pts

\* wire.points after `wire.points.remove(pos)` and the two flag updates
split_wire_cleared(pts, pos) ==
    clear_up(clear_left(pts, search_wire_point(DOMAIN pts, pos, FALSE, TRUE)),
             search_wire_point(DOMAIN pts, pos, TRUE, TRUE))

\* the point that goes to the new wire
split_wire_point(pts, points, pos, point) ==
    [left |-> point.left /\ search_wire_point(DOMAIN pts, pos, FALSE, FALSE) \in points,
     up |-> point.up /\ search_wire_point(DOMAIN pts, pos, TRUE, FALSE) \in points,
     pin |-> point.pin]

split_wire_take(st, id, new_wire_id, points, pos, point, pts) ==
    [b |-> set_wire([st.b EXCEPT !.wires[id] = pts], point.pin, new_wire_id),
     new_points |-> MapInsert(st.new_points, pos,
                              split_wire_point(pts, points, pos, point))]

\* one iteration of `for pos in points.iter()` of CircuitBoard::split_wire
split_wire_step(st, id, new_wire_id, points, pos) ==
    IF pos \notin DOMAIN st.b.wires[id] THEN st
    ELSE split_wire_take(st, id, new_wire_id, points, pos, st.b.wires[id][pos],
                         split_wire_cleared(MapRemove(st.b.wires[id], pos), pos))

\* the loop over the HashSet `points`, in every iteration order
RECURSIVE split_wire_loop(_, _, _, _, _)
split_wire_loop(st, id, new_wire_id, points, todo) ==
    IF todo = {} THEN {st}
    ELSE UNION {split_wire_loop(split_wire_step(st, id, new_wire_id, points, pos),
                                id, new_wire_id, points, todo \ {pos})
                : pos \in todo}

\* split_wire that registers the new wire even when the wire id is missing
split_wire_registering(b, id, points) ==
    IF id \notin DOMAIN b.wires
    THEN {[b |-> [b EXCEPT !.wires = MapInsert(@, first_free_pos(@), EmptyMap)],
           ret |-> first_free_pos(b.wires)]}
    ELSE {[b |-> [st.b EXCEPT !.wires =
                     MapInsert(@, first_free_pos(b.wires), st.new_points)],
           ret |-> first_free_pos(b.wires)]
          : st \in split_wire_loop([b |-> b, new_points |-> EmptyMap],
                                   id, first_free_pos(b.wires), points, points)}

\* CircuitBoard::split_wire(id, points, update_states): the possible results
split_wire(b, id, points) ==
    IF id \notin DOMAIN b.wires THEN {[b |-> b, ret |-> None]}
    ELSE {[b |-> [st.b EXCEPT !.wires =
                     MapInsert(@, first_free_pos(b.wires), st.new_points)],
           ret |-> first_free_pos(b.wires)]
          : st \in split_wire_loop([b |-> b, new_points |-> EmptyMap],
                                   id, first_free_pos(b.wires), points, points)}

(* ------------------------------ split_wires ----------------------------- *)
\* node_neighboring_intersections(pos, Some(wire)): the positions found
node_neighboring_intersections(nodes, pos, wire) ==
    IF pos \notin Grid THEN {}
    ELSE {f.pos : f \in {r \in {find_node_from_node(nodes, nodes[pos], pos, v, fw)
                                 : v \in BOOLEAN, fw \in BOOLEAN}
                         : r.found /\ ~(wire # None /\ wire # r.wire)}}

\* the remaining nodes the queue reaches from the nodes of `group`
flood_more(nodes, id, remaining, group) ==
    {n \in remaining \ group :
        \E p \in group : n \in node_neighboring_intersections(nodes, p, id)}

\* the group the inner `while let Some(pos) = queue.pop()` loop collects
RECURSIVE flood_group(_, _, _, _)
flood_group(nodes, id, remaining, group) ==
    IF flood_more(nodes, id, remaining, group) = {} THEN group
    ELSE flood_group(nodes, id, remaining,
                     group \cup flood_more(nodes, id, remaining, group))

\* the possible values of `groups`: `remaining_nodes.iter().next()` picks any
\* remaining node as the start of a group
RECURSIVE flood_groups(_, _, _)
flood_groups(nodes, id, remaining) ==
    IF remaining = {} THEN {<<>>}
    ELSE UNION {{<<g>> \o rest : rest \in flood_groups(nodes, id, remaining \ g)}
                : g \in {flood_group(nodes, id, remaining, {s}) : s \in remaining}}

\* `if let Some(wire) = new_wire { self.set_node_wires(group.iter(), wire); .. }`
split_group_nodes(r, group) ==
    IF r.ret # None THEN set_node_wires(r.b, group, r.ret) ELSE r.b

\* the `for (groupid, group) in groups.drain(..).enumerate()` loop
RECURSIVE split_groups(_, _, _, _, _)
split_groups(b, id, groups, groupid, biggest_wire) ==
    IF groupid > Len(groups) THEN {b}
    ELSE IF groupid = biggest_wire
         THEN split_groups(b, id, groups, groupid + 1, biggest_wire)
         ELSE UNION {split_groups(split_group_nodes(r, groups[groupid]),
                                  id, groups, groupid + 1, biggest_wire)
                     : r \in split_wire(b, id, groups[groupid])}

\* `groups.iter().enumerate().max_by(len)`: Iterator::max_by returns the last
\* of several maxima
biggest_group(groups) ==
    CHOOSE i \in 1 .. Len(groups) :
        /\ \A j \in 1 .. Len(groups) : Cardinality(groups[j]) <= Cardinality(groups[i])
        /\ \A j \in (i + 1) .. Len(groups) : Cardinality(groups[j]) < Cardinality(groups[i])

\* split_wires(id, update_states): the possible results
split_wires(b, id) ==
    IF b.pc # "ready" THEN {b}
    ELSE IF id \notin DOMAIN b.wires THEN {b}
    ELSE UNION {IF Len(groups) <= 1 THEN {b}
                ELSE split_groups(b, id, groups, 1, biggest_group(groups))
                : groups \in flood_groups(b.wire_nodes, id, DOMAIN b.wires[id])}

(* -------------------- remove_intersection / toggle ---------------------- *)
\* `if split { if let Some(wire) = prev { self.split_wires(wire, true) } }`
remove_split(r, split) ==
    IF split /\ r.prev # None THEN split_wires(r.b, r.prev) ELSE {r.b}

\* remove_intersection_at_node(pos, node, split): the possible results
remove_intersection_at_node(b, pos, node, split) ==
    IF b.pc # "ready" THEN {b}
    ELSE IF \/ node.wire = None
            \/ (node.up = 0 /\ node.left = 0)
            \/ /\ node.wire \in DOMAIN b.wires
               /\ pos \in DOMAIN b.wires[node.wire]
               /\ b.wires[node.wire][pos].pin # NoPin
    THEN {b}
    ELSE remove_split(set_wire_point(b, pos, None),
                      split /\ node.up > 0 /\ node.left > 0)

remove_intersection(b, pos, split) ==
    IF pos \notin Grid THEN {b}
    ELSE remove_intersection_at_node(b, pos, b.wire_nodes[pos], split)

\* `right` (`down`, when vertical) of try_toggle_node_intersection
toggle_continues(nodes, pos, node, vertical) ==
    /\ (node.wire # None \/ Pointer(node, vertical) > 0)
    /\ Step(pos, vertical, 1) \in Grid
    /\ Pointer(nodes[Step(pos, vertical, 1)], vertical)
           = (IF node.wire # None THEN 1 ELSE Pointer(node, vertical) + 1)

\* a toggle that does not compare up with down and left with right
toggle_node_unguarded(b, pos, node) ==
    IF node = EmptyNode THEN {b}
    ELSE IF node.wire # None THEN remove_intersection_at_node(b, pos, node, TRUE)
    ELSE {create_wire_intersection_at_node(b, pos, node, None).b}

toggle_node(b, pos, node) ==
    IF node = EmptyNode THEN {b}
    ELSE IF \/ (node.up > 0) # toggle_continues(b.wire_nodes, pos, node, TRUE)
            \/ (node.left > 0) # toggle_continues(b.wire_nodes, pos, node, FALSE)
    THEN {b}
    ELSE IF node.wire # None THEN remove_intersection_at_node(b, pos, node, TRUE)
    ELSE {create_wire_intersection_at_node(b, pos, node, None).b}

\* try_toggle_node_intersection(pos): the possible results
try_toggle_node_intersection(b, pos) ==
    IF pos \notin Grid THEN {b} ELSE toggle_node(b, pos, b.wire_nodes[pos])

(* --------------------------- optimize_wire_part ------------------------- *)
NoPart == [pos |-> NoPos, length |-> 0, vertical |-> FALSE]

\* `if let Some(found) = new_start { part_len -= ..; part_pos = found.pos }`
optimize_start(part, new_start) ==
    IF new_start.found
    THEN [pos |-> new_start.pos, length |-> part.length - new_start.distance,
          vertical |-> part.vertical]
    ELSE part

\* `match new_end_dist { .. part_len -= dist }` and the final length test
optimize_end(part, new_end) ==
    IF part.length - (IF new_end.found THEN new_end.distance ELSE 0) <= 0 THEN NoPart
    ELSE [part EXCEPT !.length = @ - (IF new_end.found THEN new_end.distance ELSE 0)]

\* `new_end_dist`: the backward search from the end position
optimize_find_end(nodes, part, end_pos) ==
    optimize_end(part,
                 IF end_pos \notin Grid THEN NotFound
                 ELSE find_node_from_node(nodes, nodes[end_pos], end_pos,
                                          part.vertical, FALSE))

optimize_from(nodes, part) ==
    optimize_find_end(nodes, part, Step(part.pos, part.vertical, part.length))

optimize_wire_part(nodes, part) ==
    optimize_from(nodes,
                  optimize_start(part,
                      IF nodes[part.pos].wire # None THEN NotFound
                      ELSE find_node_from_node(nodes, nodes[part.pos], part.pos,
                                               part.vertical, TRUE)))

(* ----------------------------- place_wire_part -------------------------- *)
PartTiles(part) == {Step(part.pos, part.vertical, i) : i \in 0 .. part.length}

\* the `pins_crossed` map
pins_crossed_of(b, part) ==
    [pos \in {p \in PartTiles(part) : pin_at(b, p) # NoPin} |-> pin_at(b, pos)]

\* the wires one position of the part adds to `wires_crossed`
wires_crossed_at(b, pos, is_end) ==
    IF is_end THEN TileWireSet(wires_at(b.wire_nodes, pos))
    ELSE IF b.wire_nodes[pos].wire # None THEN {b.wire_nodes[pos].wire}
    ELSE {}

\* the `wires_crossed` set
wires_crossed_of(b, part) ==
    UNION {wires_crossed_at(b, Step(part.pos, part.vertical, i),
                            i = 0 \/ i = part.length)
           : i \in 0 .. part.length}

\* CircuitBoard::create_wire
create_wire(b) ==
    [b EXCEPT !.wires = MapInsert(@, first_free_pos(@), EmptyMap)]

\* main_wire candidates taken with min_by in place of max_by
main_wire_candidates_fewest(b, crossed) ==
    {w \in crossed \cap DOMAIN b.wires :
        \A v \in crossed \cap DOMAIN b.wires :
            Cardinality(DOMAIN b.wires[v]) >= Cardinality(DOMAIN b.wires[w])}

\* the candidates for `main_wire`: the registered crossed wires with the most
\* points (which of several maxima max_by meets last is left open)
main_wire_candidates(b, crossed) ==
    {w \in crossed \cap DOMAIN b.wires :
        \A v \in crossed \cap DOMAIN b.wires :
            Cardinality(DOMAIN b.wires[v]) <= Cardinality(DOMAIN b.wires[w])}

\* `for wire in wires_crossed.iter() { if *wire != main_wire { merge } }`
RECURSIVE merge_all(_, _, _)
merge_all(b, main_wire, others) ==
    IF others = {} THEN b
    ELSE merge_all(merge_wires(b, main_wire, CHOOSE x \in others : \A y \in others : x <= y),
                   main_wire,
                   others \ {CHOOSE x \in others : \A y \in others : x <= y})

\* the `_ =>` arm of `match wires_crossed.len()`
resolve_main(b, crossed, mains) ==
    IF mains = {} THEN {[b |-> Stuck(b, "panic"), w |-> None]}
    ELSE {[b |-> merge_all(b, m, crossed \ {m}), w |-> m] : m \in mains}

\* `let new_wire = match wires_crossed.len() { .. }`
resolve_wire(b, crossed) ==
    IF crossed = {} THEN {[b |-> create_wire(b), w |-> first_free_pos(b.wires)]}
    ELSE IF Cardinality(crossed) = 1 THEN {[b |-> b, w |-> CHOOSE w \in crossed : TRUE]}
    ELSE resolve_main(b, crossed, main_wire_candidates(b, crossed))

\* what the final loop of place_wire_part does to one tile
place_tile(b, new_wire, pos, node, anchor, pin) ==
    IF ~anchor THEN [b EXCEPT !.wire_nodes[pos] = node]
    ELSE IF new_wire \notin DOMAIN b.wires THEN Stuck(b, "panic")
    ELSE add_point([b EXCEPT !.wire_nodes[pos] = [node EXCEPT !.wire = new_wire]],
                   new_wire, pos, node.left > 0, node.up > 0, pin)

RECURSIVE place_loop(_, _, _, _, _, _)

\* a loop body that makes only the two ends of the part anchors
place_loop_node_ends(b, part, new_wire, pins_crossed, i, dist, pos, node) ==
    place_loop(place_tile(b, new_wire, pos, node, i = 0 \/ i = part.length, NoPin),
               part, new_wire, pins_crossed, i + 1,
               IF pos \in DOMAIN pins_crossed \/ node.wire # None THEN 1 ELSE dist + 1)

\* a loop body that also makes an anchor of every tile another wire's run
\* passes over
place_loop_node_joining(b, part, new_wire, pins_crossed, i, dist, pos, node) ==
    place_loop(place_tile(b, new_wire, pos, node,
                          i = 0 \/ i = part.length
                               \/ pos \in DOMAIN pins_crossed \/ node.wire # None
                               \/ Pointer(node, ~part.vertical) > 0,
                          IF pos \in DOMAIN pins_crossed THEN pins_crossed[pos] ELSE NoPin),
               part, new_wire, pins_crossed, i + 1,
               IF pos \in DOMAIN pins_crossed \/ node.wire # None THEN 1 ELSE dist + 1)

\* the final `for i in 0..=part.length.get()` loop of place_wire_part;
\* `node` is the tile after `node.up = dist` / `node.left = dist`
place_loop_node(b, part, new_wire, pins_crossed, i, dist, pos, node) ==
    place_loop(place_tile(b, new_wire, pos, node,
                          i = 0 \/ i = part.length
                               \/ pos \in DOMAIN pins_crossed \/ node.wire # None,
                          IF pos \in DOMAIN pins_crossed THEN pins_crossed[pos] ELSE NoPin),
               part, new_wire, pins_crossed, i + 1,
               IF pos \in DOMAIN pins_crossed \/ node.wire # None THEN 1 ELSE dist + 1)

place_loop(b, part, new_wire, pins_crossed, i, dist) ==
    IF b.pc # "ready" \/ i > part.length THEN b
    ELSE place_loop_node(b, part, new_wire, pins_crossed, i, dist,
                         Step(part.pos, part.vertical, i),
                         IF i > 0
                         THEN SetPointer(b.wire_nodes[Step(part.pos, part.vertical, i)],
                                         part.vertical, dist)
                         ELSE b.wire_nodes[Step(part.pos, part.vertical, i)])

\* everything after `new_wire` is known
place_part_write(b, part, new_wire, pins_crossed) ==
    place_loop(set_wire_point(set_wire_point(b, part.pos, new_wire).b,
                              Step(part.pos, part.vertical, part.length),
                              new_wire).b,
               part, new_wire, pins_crossed, 0, 0)

place_resolved(b, part, pins_crossed, crossed) ==
    {[b |-> place_part_write(st.b, part, st.w, pins_crossed),
      part |-> part, crossed |-> crossed, new_wire |-> st.w]
     : st \in resolve_wire(b, crossed)}

\* a place_wire_part that allocates a wire before it looks at the trimmed part
place_trimmed_allocating(b, part) ==
    IF part = NoPart
    THEN {[b |-> create_wire(b), part |-> NoPart, crossed |-> {}, new_wire |-> None]}
    ELSE place_resolved(b, part, pins_crossed_of(b, part), wires_crossed_of(b, part))

place_trimmed(b, part) ==
    IF part = NoPart
    THEN {[b |-> b, part |-> NoPart, crossed |-> {}, new_wire |-> None]}
    ELSE place_resolved(b, part, pins_crossed_of(b, part), wires_crossed_of(b, part))

\* place_wire_part(part): the possible results, each with the trimmed part,
\* the crossed wires and the resulting wire id
place_wire_part(b, part) == place_trimmed(b, optimize_wire_part(b.wire_nodes, part))

(* ------------------------------ place_circuit --------------------------- *)
Footprint(place_pos, size) ==
    {<<place_pos[1] + i, place_pos[2] + j>> : i \in 0 .. size[1] - 1, j \in 0 .. size[2] - 1}

\* CircuitBoard::create_circuit with Circuit::create: pin i gets the id (i, id)
create_circuit(b, pos, size, pins) ==
    [b EXCEPT !.circuits = MapInsert(@, first_free_pos(@),
                                     [pos |-> pos, size |-> size, pins |-> pins]),
              !.pin_wire = [q \in (DOMAIN @) \cup {<<first_free_pos(b.circuits), i - 1>>
                                                   : i \in 1 .. Len(pins)} |->
                               IF q \in DOMAIN @ THEN @[q] ELSE None]]

\* the body of `if let Some(wire) = self.create_wire_intersection(pos, None)`
attach_pin(r, pos, pin) ==
    IF r.b.pc # "ready" \/ r.ret = None \/ r.ret \notin DOMAIN r.b.wires THEN r.b
    ELSE set_wire(IF pos \in DOMAIN r.b.wires[r.ret]
                  THEN [r.b EXCEPT !.wires[r.ret][pos].pin = pin] ELSE r.b,
                  pin, r.ret)

\* the `for pin in circ_info.pins.iter()` loop of place_circuit
RECURSIVE place_circuit_pins(_, _, _, _)
place_circuit_pin(b, cid, place_pos, i, pos) ==
    place_circuit_pins(attach_pin(create_wire_intersection(b, pos, None), pos, <<cid, i - 1>>),
                       cid, place_pos, i + 1)

place_circuit_pins(b, cid, place_pos, i) ==
    IF b.pc # "ready" \/ i > Len(b.circuits[cid].pins) THEN b
    ELSE place_circuit_pin(b, cid, place_pos, i,
                           <<place_pos[1] + b.circuits[cid].pins[i][1],
                             place_pos[2] + b.circuits[cid].pins[i][2]>>)

\* the loop that writes the circuit tile nodes
place_circuit_nodes(b, cid, place_pos, size) ==
    [b EXCEPT !.circuit_nodes =
        [p \in Grid |->
            IF p \in Footprint(place_pos, size)
            THEN [circuit |-> cid,
                  origin_dist |-> <<p[1] - place_pos[1], p[2] - place_pos[2]>>]
            ELSE @[p]]]

\* place_circuit without the loop that looks for occupied tiles
place_circuit_unchecked(b, place_pos, size, pins) ==
    place_circuit_pins(
        place_circuit_nodes(create_circuit(b, place_pos, size, pins),
                            first_free_pos(b.circuits), place_pos, size),
        first_free_pos(b.circuits), place_pos, 1)

\* a place_circuit that registers the update before it attaches the pins
place_circuit_timed_early(b, place_pos, size, pins, interval) ==
    IF \E p \in Footprint(place_pos, size) : b.circuit_nodes[p].circuit # None
    THEN b
    ELSE place_circuit_pins(
             place_circuit_nodes(
                 [create_circuit(b, place_pos, size, pins)
                     EXCEPT !.updates = IF interval = None THEN @
                                        ELSE @ \cup {first_free_pos(b.circuits)},
                            !.intervals = IF interval = None THEN @
                                          ELSE MapInsert(@, first_free_pos(b.circuits),
                                                         interval)],
                 first_free_pos(b.circuits), place_pos, size),
             first_free_pos(b.circuits), place_pos, 1)

\* `if let Some(duration) = update_interval { updates.insert(cid);
\* states.update_circuit_interval(cid, duration) }`, reached when the pin
\* loop and update_circuit_signals have returned
place_circuit_schedule(b, cid, interval) ==
    IF b.pc # "ready" \/ interval = None THEN b
    ELSE [b EXCEPT !.updates = @ \cup {cid},
                   !.intervals = MapInsert(@, cid, interval)]

\* a place_circuit_timed without the loop that looks for occupied tiles
place_circuit_timed_unchecked(b, place_pos, size, pins, interval) ==
    place_circuit_schedule(
        place_circuit_pins(
            place_circuit_nodes(create_circuit(b, place_pos, size, pins),
                                first_free_pos(b.circuits), place_pos, size),
            first_free_pos(b.circuits), place_pos, 1),
        first_free_pos(b.circuits), interval)

\* place_circuit(place_pos, preview) for a preview whose behaviour answers
\* update_interval with `interval` (None, or Some(duration))
place_circuit_timed(b, place_pos, size, pins, interval) ==
    IF \E p \in Footprint(place_pos, size) : b.circuit_nodes[p].circuit # None
    THEN b
    ELSE place_circuit_schedule(
             place_circuit_pins(
                 place_circuit_nodes(create_circuit(b, place_pos, size, pins),
                                     first_free_pos(b.circuits), place_pos, size),
                 first_free_pos(b.circuits), place_pos, 1),
             first_free_pos(b.circuits), interval)

\* place_circuit for the not gate: CircuitImpl::update_interval is the
\* trait's default, None
place_circuit(b, place_pos, size, pins) ==
    place_circuit_timed(b, place_pos, size, pins, None)

(* ------------------------------ the board ------------------------------- *)
Board == [wire_nodes |-> wire_nodes, circuit_nodes |-> circuit_nodes,
          wires |-> wires, circuits |-> circuits, pin_wire |-> pin_wire,
          updates |-> updates, intervals |-> intervals, pc |-> pc]

\* CircuitBoard::new and the empty tile indexes of ActiveCircuitBoard::new
NewBoard == [wire_nodes |-> [p \in Grid |-> EmptyNode],
             circuit_nodes |-> [p \in Grid |-> EmptyCircuitNode],
             wires |-> EmptyMap, circuits |-> EmptyMap, pin_wire |-> EmptyMap,
             updates |-> {}, intervals |-> EmptyMap, pc |-> "ready"]

\* ActiveCircuitBoard::new(board, state): a view of the same board whose
\* tile indexes are `Default::default()`
ActiveCircuitBoard_new(b) ==
    [b EXCEPT !.wire_nodes = NewBoard.wire_nodes,
              !.circuit_nodes = NewBoard.circuit_nodes]

\* what the last call was and what it did: the operation, whether it changed
\* anything, the number of wires there were before it, and for
\* place_wire_part the trimmed part, the number of wires crossed and the
\* resulting wire
NoLast == [op |-> "new", acted |-> FALSE, pos |-> NoPos, part |-> NoPart,
           k |-> 0, new_wire |-> None, before |-> 0]

\* the locals of a place_wire_part that is under way: how far it is, the
\* trimmed part, pins_crossed, wires_crossed and new_wire
NoCall == [at |-> "idle", part |-> NoPart, pins_crossed |-> EmptyMap,
           crossed |-> {}, new_wire |-> None]

\* what another thread found under the board's read lock: whether a call was
\* under way, and the registered wires that had no points
NoSeen == [mid |-> FALSE, empty |-> {}]

\* nothing was pasted and the application was not started from storage
NoLoading == [paste |-> <<>>, app |-> <<>>]

\* nothing described and no direction turned yet
NoDescription == [described |-> <<>>, turned |-> <<>>]

Init ==
    /\ wire_nodes = NewBoard.wire_nodes
    /\ circuit_nodes = NewBoard.circuit_nodes
    /\ wires = NewBoard.wires
    /\ circuits = NewBoard.circuits
    /\ pin_wire = NewBoard.pin_wire
    /\ updates = NewBoard.updates
    /\ intervals = NewBoard.intervals
    /\ pc = "ready"
    /\ last = NoLast
    /\ nops = 0
    /\ lock = "free"
    /\ call = NoCall
    /\ seen = NoSeen
    /\ pin_state = EmptyMap
    /\ wire_state = EmptyMap
    /\ wire_queue = <<>>
    /\ loading = NoLoading
    /\ description = NoDescription

\* An operation that returns leaves its result; one that does not return
\* (endless loop, self-deadlock, panic) leaves pc changed and nothing else.
Commit(r, l) ==
    /\ UNCHANGED <<lock, call, seen>>
    /\ UNCHANGED <<sigvars, loading, description>>
    /\ nops' = nops + 1
    /\ last' = l
    /\ pc' = r.pc
    /\ IF r.pc = "ready"
       THEN /\ wire_nodes' = r.wire_nodes
            /\ circuit_nodes' = r.circuit_nodes
            /\ wires' = r.wires
            /\ circuits' = r.circuits
            /\ pin_wire' = r.pin_wire
            /\ updates' = r.updates
            /\ intervals' = r.intervals
       ELSE UNCHANGED <<wire_nodes, circuit_nodes, wires, circuits, pin_wire,
                        updates, intervals>>

Called(op, r, pos) ==
    Commit(r, [NoLast EXCEPT !.op = op, !.acted = (r # Board),
                             !.pos = IF r # Board THEN pos ELSE NoPos,
                             !.before = IF r # Board THEN Cardinality(DOMAIN wires)
                                        ELSE 0])

Placed(r) ==
    Commit(r.b, [NoLast EXCEPT !.op = "place_wire_part",
                               !.acted = (r.part # NoPart),
                               !.part = r.part,
                               !.k = Cardinality(r.crossed),
                               !.new_wire = r.new_wire,
                               !.before = IF r.part # NoPart
                                          THEN Cardinality(DOMAIN wires) ELSE 0])

PlaceWirePart(part) ==
    /\ pc = "ready"
    /\ \E r \in place_wire_part(Board, part) : Placed(r)

TryToggle(pos) ==
    /\ pc = "ready"
    /\ \E r \in try_toggle_node_intersection(Board, pos) :
           Called("try_toggle_node_intersection", r, pos)

RemoveIntersection(pos, split) ==
    /\ pc = "ready"
    /\ \E r \in remove_intersection(Board, pos, split) :
           Called("remove_intersection", r, pos)

CreateWireIntersection(pos) ==
    /\ pc = "ready"
    /\ Called("create_wire_intersection",
              create_wire_intersection(Board, pos, None).b, pos)

PlaceCircuit(pos) ==
    /\ pc = "ready"
    /\ Cardinality(DOMAIN circuits) < MaxCircuits
    /\ Called("place_circuit", place_circuit(Board, pos, NotSize, NotPins), pos)

(* ------------------------- inputs of the operations --------------------- *)
Region == (0 .. RegW - 1) \X (0 .. RegH - 1)

\* the wire parts that lie inside a set of tiles
PartsIn(tiles) ==
    {part \in [pos : tiles, length : 1 .. (GridW + GridH), vertical : BOOLEAN] :
        Step(part.pos, part.vertical, part.length) \in tiles}

Parts == PartsIn(Region)

CircuitSpots == {p \in Region : Footprint(p, NotSize) \subseteq Region}

Next ==
    \/ \E part \in Parts : nops < MaxOps /\ PlaceWirePart(part)
    \/ \E pos \in Region : nops < MaxOps /\ TryToggle(pos)
    \/ \E pos \in Region, split \in BOOLEAN :
           nops < MaxOps /\ RemoveIntersection(pos, split)
    \/ \E pos \in Region : nops < MaxOps /\ CreateWireIntersection(pos)
    \/ \E pos \in CircuitSpots : nops < MaxOps /\ PlaceCircuit(pos)

Spec == Init /\ [][Next]_vars

\* Long wires on the whole grid: parts that span the grid from edge to edge.
LongRows == {0, 2}
LongCols == {1, 2}
LongParts ==
    {part \in PartsIn(Grid) :
        /\ part.length = (IF part.vertical THEN GridH ELSE GridW) - 1
        /\ IF part.vertical THEN part.pos[1] \in LongCols ELSE part.pos[2] \in LongRows}

NextLong ==
    \/ \E part \in LongParts : nops < MaxOpsLong /\ PlaceWirePart(part)
    \/ \E pos \in Grid : nops < MaxOpsLong /\ TryToggle(pos)
    \/ \E pos \in Grid, split \in BOOLEAN :
           nops < MaxOpsLong /\ RemoveIntersection(pos, split)
    \/ \E pos \in Grid : nops < MaxOpsLong /\ CreateWireIntersection(pos)
    \/ \E pos \in CircuitSpots : nops < MaxOpsLong /\ PlaceCircuit(pos)

SpecLong == Init /\ [][NextLong]_vars

\* Longer runs of calls on a small corner of the grid.
JoinRegion == (0 .. JoinW - 1) \X (0 .. JoinH - 1)

JoinSpots == {p \in JoinRegion : Footprint(p, NotSize) \subseteq JoinRegion}

NextJoin ==
    \/ \E part \in PartsIn(JoinRegion) : nops < MaxOpsJoin /\ PlaceWirePart(part)
    \/ \E pos \in JoinRegion : nops < MaxOpsJoin /\ TryToggle(pos)
    \/ \E pos \in JoinRegion, split \in BOOLEAN :
           nops < MaxOpsJoin /\ RemoveIntersection(pos, split)
    \/ \E pos \in JoinRegion : nops < MaxOpsJoin /\ CreateWireIntersection(pos)
    \/ \E pos \in JoinSpots : nops < MaxOpsJoin /\ PlaceCircuit(pos)

SpecJoin == Init /\ [][NextJoin]_vars

\* App::update on F8: the board view is replaced by a new one over the same
\* board
Reload ==
    /\ pc = "ready"
    /\ Called("reload", ActiveCircuitBoard_new(Board), NoPos)

\* Placements with reloads of the board view in between.
NextReload ==
    \/ \E part \in Parts : nops < MaxOpsReload /\ PlaceWirePart(part)
    \/ nops < MaxOpsReload /\ Reload

SpecReload == Init /\ [][NextReload]_vars

\* Several circuits, with and without an update interval, beside wires.
PlaceCircuitTimed(pos, interval) ==
    /\ pc = "ready"
    /\ Cardinality(DOMAIN circuits) < MaxCircuitsMany
    /\ Called("place_circuit",
              place_circuit_timed(Board, pos, NotSize, NotPins, interval), pos)

\* the answers of update_interval: None, or Some(duration)
Intervals == {None} \cup (1 .. MaxInterval)

NextCircuits ==
    \/ \E part \in Parts : nops < MaxOpsCircuits /\ PlaceWirePart(part)
    \/ \E pos \in CircuitSpots, interval \in Intervals :
           nops < MaxOpsCircuits /\ PlaceCircuitTimed(pos, interval)

SpecCircuits == Init /\ [][NextCircuits]_vars

(* ------------------ place_wire_part, one lock at a time ------------------ *)
\* the board a step leaves: as in Commit, a step that does not return leaves
\* pc changed and nothing else
Stored(r) ==
    /\ pc' = r.pc
    /\ IF r.pc = "ready"
       THEN /\ wire_nodes' = r.wire_nodes
            /\ circuit_nodes' = r.circuit_nodes
            /\ wires' = r.wires
            /\ circuits' = r.circuits
            /\ pin_wire' = r.pin_wire
            /\ updates' = r.updates
            /\ intervals' = r.intervals
       ELSE UNCHANGED <<wire_nodes, circuit_nodes, wires, circuits, pin_wire,
                        updates, intervals>>

\* the call with its locals, once the trimmed part is known
begun(b, part) ==
    [at |-> "resolve", part |-> part, pins_crossed |-> pins_crossed_of(b, part),
     crossed |-> wires_crossed_of(b, part), new_wire |-> None]

\* place_wire_part up to `let new_wire = match wires_crossed.len()`: the
\* part is trimmed, pins_crossed and wires_crossed are collected, and the
\* match takes the write lock in its `0 =>` arm (create_wire) and in its
\* `_ =>` arm (merge_wires); the `1 =>` arm takes no lock
BeginPlace(part) ==
    /\ pc = "ready" /\ call = NoCall /\ lock = "free"
    /\ optimize_wire_part(wire_nodes, part) # NoPart
    /\ call' = begun(Board, optimize_wire_part(wire_nodes, part))
    /\ lock' = IF Cardinality(call'.crossed) = 1 THEN "free" ELSE "write"
    /\ UNCHANGED <<sigvars, loading, description>>
    /\ UNCHANGED <<wire_nodes, circuit_nodes, wires, circuits, pin_wire, pc,
                   updates, intervals,
                   last, nops, seen>>

\* the match statement ends: new_wire is known and the guard taken inside
\* the statement is dropped with it
ResolveWire ==
    /\ pc = "ready" /\ call.at = "resolve"
    /\ \E st \in resolve_wire(Board, call.crossed) :
           /\ Stored(st.b)
           /\ call' = IF st.b.pc = "ready"
                      THEN [call EXCEPT !.at = "resolved", !.new_wire = st.w]
                      ELSE NoCall
    /\ lock' = "free"
    /\ UNCHANGED <<last, nops, seen>>
    /\ UNCHANGED <<sigvars, loading, description>>

\* `let mut board = self.board.write().unwrap()` of the first set_wire_point
WriteLock ==
    /\ pc = "ready" /\ call.at = "resolved" /\ lock = "free"
    /\ lock' = "write"
    /\ call' = [call EXCEPT !.at = "write"]
    /\ UNCHANGED <<sigvars, loading, description>>
    /\ UNCHANGED <<wire_nodes, circuit_nodes, wires, circuits, pin_wire, pc,
                   updates, intervals,
                   last, nops, seen>>

\* set_wire_point on both ends and the final loop, to the return of the call
FinishPlace ==
    /\ pc = "ready" /\ call.at = "write"
    /\ Stored(place_part_write(Board, call.part, call.new_wire, call.pins_crossed))
    /\ lock' = "free"
    /\ call' = NoCall
    /\ nops' = nops + 1
    /\ UNCHANGED <<last, seen>>
    /\ UNCHANGED <<sigvars, loading, description>>

\* another thread takes the read lock of the board and looks at the registry
ReadBoard ==
    /\ lock = "free"
    /\ seen' = [mid |-> call # NoCall,
                empty |-> {w \in DOMAIN wires : DOMAIN wires[w] = {}}]
    /\ seen' # seen
    /\ UNCHANGED <<sigvars, loading, description>>
    /\ UNCHANGED <<wire_nodes, circuit_nodes, wires, circuits, pin_wire, pc,
                   updates, intervals,
                   last, nops, lock, call>>

NextLock ==
    \/ \E part \in Parts : nops < MaxOpsLock /\ BeginPlace(part)
    \/ ResolveWire
    \/ WriteLock
    \/ FinishPlace
    \/ ReadBoard

SpecLock == Init /\ [][NextLock]_vars

(* ----------------------------- signal state ----------------------------- *)
\* WireState
WireStates == {"None", "False", "True", "Error"}

\* what the signal operations read and write: the pin values of the circuit
\* states, each pin's wire, the wire values and the marked wires
Signals == [pin_state |-> pin_state, pin_wire |-> pin_wire,
            wire_state |-> wire_state, wire_queue |-> wire_queue]

\* `pins.get_clone(pin.id.id).unwrap_or_default()`
pin_value(ps, pin) == IF pin \in DOMAIN ps THEN ps[pin] ELSE "None"

\* State::update_wire(wire, ..): the wire is marked for recomputation
update_wire(sg, wire) == [sg EXCEPT !.wire_queue = Append(@, wire)]

\* `if let Some(wire) = .. { update_wire(wire) }`
update_some_wire(sg, wire) == IF wire # None THEN update_wire(sg, wire) ELSE sg

\* a set_state that stores and marks without comparing
set_state_uncompared(sg, pin, value) ==
    update_some_wire([sg EXCEPT !.pin_state = MapInsert(@, pin, value)],
                     sg.pin_wire[pin])

\* CircuitPinInfo::set_state(state_ctx, value)
set_state(sg, pin, value) ==
    IF pin_value(sg.pin_state, pin) = value THEN sg
    ELSE update_some_wire([sg EXCEPT !.pin_state = MapInsert(@, pin, value)],
                          sg.pin_wire[pin])

\* a set_wire that marks the new wire only
CircuitPin_set_wire_new_only(sg, pin, wire, upd) ==
    IF sg.pin_wire[pin] = wire THEN sg
    ELSE IF ~upd THEN [sg EXCEPT !.pin_wire[pin] = wire]
    ELSE update_some_wire([sg EXCEPT !.pin_wire[pin] = wire], wire)

\* CircuitPin::set_wire(states, wire, update_wire, update_input) of a pin
\* whose direction is Outside (update_input does nothing for it)
CircuitPin_set_wire(sg, pin, wire, upd) ==
    IF sg.pin_wire[pin] = wire THEN sg
    ELSE IF ~upd THEN [sg EXCEPT !.pin_wire[pin] = wire]
    ELSE update_some_wire(update_some_wire([sg EXCEPT !.pin_wire[pin] = wire],
                                           sg.pin_wire[pin]),
                          wire)

\* the pins of direction Outside: pin 1 ("out") of the not gate
Outside(pin) == pin[2] = 1

\* the values the drivers of a wire assert: the pins connected to it
asserted(sg, wire) ==
    {pin_value(sg.pin_state, pin)
     : pin \in {q \in DOMAIN sg.pin_wire : sg.pin_wire[q] = wire /\ Outside(q)}}
    \ {"None"}

\* the value of a wire: no drivers -> None, one distinct asserted value ->
\* that value, several -> Error
wire_value(sg, wire) ==
    IF asserted(sg, wire) = {} THEN "None"
    ELSE IF Cardinality(asserted(sg, wire)) = 1
         THEN CHOOSE v \in asserted(sg, wire) : TRUE
         ELSE "Error"

\* the recomputation of the wire marked first
run_wire_update(sg) ==
    [sg EXCEPT !.wire_state = MapInsert(@, Head(sg.wire_queue),
                                        wire_value(sg, Head(sg.wire_queue))),
               !.wire_queue = Tail(@)]

\* CircuitPin::set_input(state, value, update_state) with update_state off
set_input(sg, pin, value) ==
    IF pin_value(sg.pin_state, pin) = value THEN sg
    ELSE [sg EXCEPT !.pin_state = MapInsert(@, pin, value)]

\* a gate that passes True through
passing_state(state) ==
    CASE state = "None" -> "None"
      [] state = "True" -> "True"
      [] state = "False" -> "True"
      [] state = "Error" -> "Error"

\* the `match state` of the not gate's update_signals
inverted_state(state) ==
    CASE state = "None" -> "None"
      [] state = "True" -> "False"
      [] state = "False" -> "True"
      [] state = "Error" -> "Error"

\* not::Circuit::update_signals: pin 0 is the input, pin 1 the output
update_signals(sg, cid) ==
    set_state(sg, <<cid, 1>>, inverted_state(pin_value(sg.pin_state, <<cid, 0>>)))

\* two not gates at (0,1) and (0,2) and a wire down column 1 that passes
\* over both output pins
SignalWire == [pos |-> <<1, 0>>, length |-> 3, vertical |-> TRUE]

SignalBoard ==
    (CHOOSE r \in place_wire_part(
                      place_circuit(place_circuit(NewBoard, <<0, 1>>, NotSize, NotPins),
                                    <<0, 2>>, NotSize, NotPins),
                      SignalWire) : TRUE).b

OutPins == {pin \in DOMAIN SignalBoard.pin_wire : Outside(pin)}
InPins == DOMAIN SignalBoard.pin_wire \ OutPins

InitSignal ==
    /\ wire_nodes = SignalBoard.wire_nodes
    /\ circuit_nodes = SignalBoard.circuit_nodes
    /\ wires = SignalBoard.wires
    /\ circuits = SignalBoard.circuits
    /\ pin_wire = SignalBoard.pin_wire
    /\ updates = SignalBoard.updates
    /\ intervals = SignalBoard.intervals
    /\ pc = SignalBoard.pc
    /\ last = NoLast
    /\ nops = 0
    /\ lock = "free"
    /\ call = NoCall
    /\ seen = NoSeen
    /\ pin_state = EmptyMap
    /\ wire_state = EmptyMap
    /\ wire_queue = <<>>
    /\ loading = NoLoading
    /\ description = NoDescription

SignalStored(sg) ==
    /\ pin_state' = sg.pin_state
    /\ pin_wire' = sg.pin_wire
    /\ wire_state' = sg.wire_state
    /\ wire_queue' = sg.wire_queue
    /\ UNCHANGED <<wire_nodes, circuit_nodes, wires, circuits, pc, last, nops,
                   updates, intervals, loading, description,
                   lock, call, seen>>

\* a behaviour assigns a value to its output pin
SetState(pin, value) ==
    /\ Len(wire_queue) < MaxQueue
    /\ SignalStored(set_state(Signals, pin, value))

\* a pin is connected to a wire or disconnected, with wire updates enabled
SetWire(pin, wire) ==
    /\ Len(wire_queue) + 2 <= MaxQueue
    /\ SignalStored(CircuitPin_set_wire(Signals, pin, wire, TRUE))

\* the input pin of a gate receives a value
SetInput(pin, value) ==
    SignalStored(set_input(Signals, pin, value))

\* the simulation runs the behaviour of circuit cid
UpdateSignals(cid) ==
    /\ Len(wire_queue) < MaxQueue
    /\ pin_state' = update_signals(Signals, cid).pin_state
    /\ wire_queue' = update_signals(Signals, cid).wire_queue
    /\ last' = [NoLast EXCEPT !.op = "update_signals", !.k = cid,
                              !.acted = update_signals(Signals, cid) # Signals]
    /\ UNCHANGED <<wire_nodes, circuit_nodes, wires, circuits, pin_wire, pc,
                   nops, updates, intervals, loading, description, lock,
                   call, seen,
                   wire_state>>

\* the simulation recomputes the wire marked first
UpdateWire ==
    /\ wire_queue # <<>>
    /\ SignalStored(run_wire_update(Signals))

NextSignal ==
    \/ \E pin \in OutPins, value \in WireStates : SetState(pin, value)
    \/ \E pin \in OutPins, wire \in DOMAIN wires \cup {None} : SetWire(pin, wire)
    \/ UpdateWire
    \/ \E pin \in InPins, value \in WireStates : SetInput(pin, value)
    \/ \E cid \in DOMAIN circuits : UpdateSignals(cid)

SpecSignal == InitSignal /\ [][NextSignal]_vars

(* ------------------------- loading stored data -------------------------- *)
\* the circuit types a loading context has a preview for, and a type tag
\* that no preview is registered for
TypeNames == {"not", "button"}
UnknownType == "gone"

\* the size a preview describes with its default properties
describe_size(ty) == IF ty = "not" THEN NotSize ELSE <<3, 3>>

\* Option values of this section: None is the empty sequence, Some(x) the
\* sequence of x alone
Some(x) == <<x>>
Nothing == <<>>

\* BasicLoadingContext::get_circuit_preview: the preview registered for
\* the type name, if there is one
get_circuit_preview(ty) == IF ty \in TypeNames THEN Some(ty) ELSE Nothing

\* CircuitPreview::load_new: None as soon as the implementation does not
\* load the blob, else a preview of the same type
load_new(p, imp) ==
    IF imp THEN Some([ty |-> p, size |-> describe_size(p)]) ELSE Nothing

\* the closure of the filter_map: get_circuit_preview(&d.ty).and_then(
\* |p| p.load_new(&d.imp, &d.props).map(|b| (d, b)))
load_record(d) ==
    IF get_circuit_preview(d.ty) = Nothing THEN Nothing
    ELSE IF load_new(get_circuit_preview(d.ty)[1], d.imp) = Nothing THEN Nothing
    ELSE Some(<<d, load_new(get_circuit_preview(d.ty)[1], d.imp)[1]>>)

\* a loading that gives up at the first record it cannot load
RECURSIVE filter_map_stopping(_)
filter_map_stopping(ds) ==
    IF ds = <<>> \/ load_record(Head(ds)) = Nothing THEN <<>>
    ELSE load_record(Head(ds)) \o filter_map_stopping(Tail(ds))

\* into_iter().filter_map(..).collect(): the records are taken front to
\* back and the ones the closure maps to None are skipped
RECURSIVE filter_map(_)
filter_map(ds) ==
    IF ds = <<>> THEN <<>>
    ELSE load_record(Head(ds)) \o filter_map(Tail(ds))

Max(a, b) == IF a >= b THEN a ELSE b

\* the first loop over wires.iter()
RECURSIVE size_of_wires(_, _)
size_of_wires(size, ws) ==
    IF ws = <<>> THEN size
    ELSE size_of_wires(<<Max(size[1], Head(ws).pos[1] + 1),
                         Max(size[2], Head(ws).pos[2] + 1)>>, Tail(ws))

\* the second loop over circuits.iter()
RECURSIVE size_of_circuits(_, _)
size_of_circuits(size, cs) ==
    IF cs = <<>> THEN size
    ELSE size_of_circuits(<<Max(size[1], Head(cs)[1].pos[1] + Head(cs)[2].size[1]),
                            Max(size[2], Head(cs)[1].pos[2] + Head(cs)[2].size[2])>>,
                          Tail(cs))

PastePreview_new(data) ==
    [wires |-> data.wires,
     circuits |-> filter_map(data.circuits),
     size |-> size_of_circuits(size_of_wires(<<0, 0>>, data.wires),
                               filter_map(data.circuits))]

\* ron::from_str(..).ok(): the value a stored string holds, None when the
\* string does not parse
from_str(s) == IF s.parses THEN Some(s.data) ELSE Nothing

\* cc.storage.and_then(|s| s.get_string(key)).and_then(|s| from_str(&s).ok())
stored_value(s) == IF s = Nothing THEN Nothing ELSE from_str(s[1])

\* App::create: every registered preview takes its stored data when the
\* stored previews parse and name it, and the board is the stored one
\* when shift is not held and the stored board parses; App::new puts
\* CircuitBoard::new() where there is none
App_create(storage, shift) ==
    [board |-> IF shift \/ stored_value(storage.board) = Nothing THEN "new"
               ELSE "loaded",
     previews |-> [ty \in TypeNames |->
                      IF stored_value(storage.previews) = Nothing THEN "from_impl"
                      ELSE IF ty \in stored_value(storage.previews)[1]
                           THEN "load_with_data"
                      ELSE "from_impl"]]

MaxRecords == 3
MaxWireRecords == 1
PastePositions == {<<0, 0>>, <<1, 2>>}
CircuitPositions == {<<0, 1>>}

SeqsUpTo(S, n) == UNION {[1 .. k -> S] : k \in 0 .. n}

CircuitCopyData ==
    [ty : TypeNames \cup {UnknownType}, imp : BOOLEAN, pos : CircuitPositions]

CopyPasteData ==
    [wires : SeqsUpTo([pos : PastePositions], MaxWireRecords),
     circuits : SeqsUpTo(CircuitCopyData, MaxRecords)]

\* what eframe's storage holds under a key: nothing, a string that does not
\* parse, or a string that does
StoredBoards == {Nothing} \cup {Some(s) : s \in [parses : BOOLEAN, data : {0}]}
StoredPreviews ==
    {Nothing} \cup {Some(s) : s \in [parses : BOOLEAN, data : SUBSET TypeNames]}

LoadingStored(l) ==
    /\ loading' = l
    /\ UNCHANGED <<wire_nodes, circuit_nodes, wires, circuits, pin_wire, pc,
                   last, nops, lock, call, seen, updates, intervals,
                   description>>
    /\ UNCHANGED sigvars

\* data is pasted for the first time
Paste(data) ==
    /\ loading.paste = <<>>
    /\ LoadingStored([loading EXCEPT
                      !.paste = <<[data |-> data, preview |-> PastePreview_new(data)]>>])

\* the application starts
Create(storage, shift) ==
    /\ loading.app = <<>>
    /\ LoadingStored([loading EXCEPT
                         !.app = <<[storage |-> storage, shift |-> shift,
                                    app |-> App_create(storage, shift)]>>])

NextLoad ==
    \/ \E data \in CopyPasteData : Paste(data)
    \/ \E board \in StoredBoards, previews \in StoredPreviews, shift \in BOOLEAN :
           Create([board |-> board, previews |-> previews], shift)

SpecLoad == Init /\ [][NextLoad]_vars

(* ------------------------- describing circuits -------------------------- *)
\* Direction4
Direction4 == {"Up", "Left", "Down", "Right"}

\* Direction4::is_horizontal
is_horizontal(self) == self \in {"Left", "Right"}

\* Direction4::inverted
inverted(self) ==
    CASE self = "Up" -> "Down"
      [] self = "Left" -> "Right"
      [] self = "Down" -> "Up"
      [] self = "Right" -> "Left"

\* Direction4::rotate_clockwise
rotate_clockwise(self) ==
    CASE self = "Up" -> "Right"
      [] self = "Left" -> "Up"
      [] self = "Down" -> "Left"
      [] self = "Right" -> "Down"

\* Direction4::rotate_counterclockwise
rotate_counterclockwise(self) ==
    CASE self = "Up" -> "Left"
      [] self = "Left" -> "Down"
      [] self = "Down" -> "Right"
      [] self = "Right" -> "Up"

\* Direction4::rotate_clockwise_by
rotate_clockwise_by(self, other) ==
    CASE other = "Up" -> self
      [] other = "Right" -> rotate_clockwise(self)
      [] other = "Down" -> inverted(self)
      [] other = "Left" -> rotate_counterclockwise(self)

\* a rotate_counterclockwise_by that takes Left for one quarter turn
\* counterclockwise and Right for three
rotate_counterclockwise_by_left_first(self, other) ==
    CASE other = "Up" -> self
      [] other = "Left" -> rotate_counterclockwise(self)
      [] other = "Down" -> inverted(self)
      [] other = "Right" -> rotate_clockwise(self)

\* Direction4::rotate_counterclockwise_by
rotate_counterclockwise_by(self, other) ==
    CASE other = "Up" -> self
      [] other = "Left" -> rotate_clockwise(self)
      [] other = "Down" -> inverted(self)
      [] other = "Right" -> rotate_counterclockwise(self)

\* a rotate_pos whose Left arm measures against the width
rotate_pos_by_width(pos, size, dir) ==
    CASE dir = "Up" -> pos
      [] dir = "Left" -> <<pos[2], size[1] - pos[1] - 1>>
      [] dir = "Down" -> <<size[1] - pos[1] - 1, size[2] - pos[2] - 1>>
      [] dir = "Right" -> <<size[1] - pos[2] - 1, pos[1]>>

\* rotate_pos(pos, size, dir) on u32: a component below zero stands for the
\* value 2^32 more, which a subtraction that underflowed wraps to in a
\* release build; a debug build panics there
rotate_pos(pos, size, dir) ==
    CASE dir = "Up" -> pos
      [] dir = "Left" -> <<pos[2], size[2] - pos[1] - 1>>
      [] dir = "Down" -> <<size[1] - pos[1] - 1, size[2] - pos[2] - 1>>
      [] dir = "Right" -> <<size[1] - pos[2] - 1, pos[1]>>

\* size_rotated of describe_directional_circuit
size_rotated(default_dir, dir, size) ==
    IF is_horizontal(default_dir) = is_horizontal(dir) THEN size
    ELSE <<size[2], size[1]>>

\* describe_directional_circuit!: the size and the pin positions of the
\* description
describe_directional_circuit(default_dir, dir, size, pins) ==
    [size |-> size_rotated(default_dir, dir, size),
     pins |-> [i \in DOMAIN pins |->
                  rotate_pos(pins[i], size_rotated(default_dir, dir, size),
                             rotate_counterclockwise_by(dir, default_dir))]]

\* the declared sizes and pin positions that are tried
MaxSide == 3
Sides == 1 .. MaxSide
DeclaredSizes == Sides \X Sides
DeclaredPositions == (0 .. MaxSide - 1) \X (0 .. MaxSide - 1)

\* the pins "in" and "out" of a gate, which may be declared at one position
DeclaredPins == DeclaredPositions \X DeclaredPositions

\* a circuit is described
Describe(default_dir, dir, size, pins) ==
    /\ description = NoDescription
    /\ description' =
           [description EXCEPT
               !.described =
                   <<[default_dir |-> default_dir, dir |-> dir, size |-> size,
                      pins |-> pins,
                      to |-> describe_directional_circuit(default_dir, dir,
                                                          size, pins)]>>]
    /\ UNCHANGED <<wire_nodes, circuit_nodes, wires, circuits, pin_wire, pc,
                   last, nops, lock, call, seen, updates, intervals, loading>>
    /\ UNCHANGED sigvars

\* a direction is turned by another, both ways
Turn(self, other) ==
    /\ description = NoDescription
    /\ description' =
           [description EXCEPT
               !.turned =
                   <<[self |-> self, other |-> other,
                      clockwise |-> rotate_clockwise_by(self, other),
                      counterclockwise |->
                          rotate_counterclockwise_by(self, other)]>>]
    /\ UNCHANGED <<wire_nodes, circuit_nodes, wires, circuits, pin_wire, pc,
                   last, nops, lock, call, seen, updates, intervals, loading>>
    /\ UNCHANGED sigvars

NextDescribe ==
    \/ /\ description = NoDescription
       /\ \E default_dir \in Direction4, dir \in Direction4,
             size \in DeclaredSizes, pins \in DeclaredPins :
              Describe(default_dir, dir, size, pins)
    \/ \E self \in Direction4, other \in Direction4 : Turn(self, other)

SpecDescribe == Init /\ [][NextDescribe]_vars

(* ------------------------------ properties ------------------------------ *)
\* the tile `d` steps back from pos holds a wire and no tile between does
AnchorBack(nodes, pos, vertical, d) ==
    /\ Step(pos, vertical, 0 - d) \in Grid
    /\ nodes[Step(pos, vertical, 0 - d)].wire # None
    /\ \A i \in 1 .. (d - 1) : nodes[Step(pos, vertical, 0 - i)].wire = None

\* C1: in every reachable state, every tile whose pointer left (up) is d > 0
\* has an anchor exactly d tiles to its left (above it) and no anchor on the
\* d - 1 tiles strictly between them.
C1_PointersReachAnchor ==
    \A pos \in Grid : \A vertical \in BOOLEAN :
        Pointer(wire_nodes[pos], vertical) > 0
            => AnchorBack(wire_nodes, pos, vertical, Pointer(wire_nodes[pos], vertical))

\* C2: after any board operation returns, every wire id stored in a tile node
\* and every wire id stored in a circuit pin is the id of a wire in the
\* registry.
C2_NoStaleWireIds ==
    /\ \A pos \in Grid :
           wire_nodes[pos].wire # None => wire_nodes[pos].wire \in DOMAIN wires
    /\ \A pin \in DOMAIN pin_wire :
           pin_wire[pin] # None => pin_wire[pin] \in DOMAIN wires

MergeMigrated(m, id, with) ==
    /\ with \notin DOMAIN m.wires
    /\ id \in DOMAIN m.wires
    /\ DOMAIN m.wires[id] = (DOMAIN wires[id]) \cup (DOMAIN wires[with])
    /\ \A pos \in DOMAIN wires[with] :
           /\ pos \in DOMAIN m.wires[id]
           /\ m.wires[id][pos] = wires[with][pos]
    /\ \A pin \in PinsOf(wires[with]) : m.pin_wire[pin] = id

\* C4: when wire `with` is merged into an existing, different wire `id`, the
\* id of `with` is freed, every point of `with` (with its flags and pin) is
\* afterwards a point of `id`, the point set of `id` is the union of both, and
\* every pin that was attached to `with` references `id`.
C4_MergeMigratesPoints ==
    \A id \in DOMAIN wires : \A with \in (DOMAIN wires) \ {id} :
        pc = "ready" => MergeMigrated(merge_wires(Board, id, with), id, with)

\* the family of point sets of the wires of a registry
PointSets(ws) == {DOMAIN ws[w] : w \in DOMAIN ws}

\* the tiles that are anchors on board b and are not anchors now
NewAnchors(b) ==
    {pos \in Grid : b.wire_nodes[pos].wire # None /\ wire_nodes[pos].wire = None}

\* removing the anchor at pos with split gives back the wires there are now
SplitRestores(b, pos) ==
    \A s \in remove_intersection(b, pos, TRUE) :
        /\ s.pc = "ready"
        /\ Cardinality(DOMAIN s.wires) = Cardinality(DOMAIN wires)
        /\ PointSets(s.wires) = PointSets(wires)

\* the two ends of a part
PartEnds(part) == {part.pos, Step(part.pos, part.vertical, part.length)}

\* r is the result of placing a part that bridges two wires of the board: one
\* end of the part is an anchor of one wire, the other end is the one new
\* anchor, a junction on the run of the other wire, and the part has no
\* anchor in between
Bridges(r) ==
    /\ r.b.pc = "ready"
    /\ Cardinality(r.crossed) = 2
    /\ r.crossed \subseteq DOMAIN wires
    /\ Cardinality(NewAnchors(r.b)) = 1
    /\ NewAnchors(r.b) \subseteq PartEnds(r.part)
    /\ \A pos \in NewAnchors(r.b) :
           r.b.wire_nodes[pos].left > 0 /\ r.b.wire_nodes[pos].up > 0
    /\ \A pos \in PartTiles(r.part) \ PartEnds(r.part) : r.b.wire_nodes[pos].wire = None

\* C5: for any two disjoint wires A and B, placing a segment that bridges them
\* and then removing the single bridging anchor with split enabled gives
\* exactly two wires whose point sets are those of A and B (the other wires
\* being as they were).
C5_BridgeThenSplit ==
    \A part \in Parts : \A r \in place_wire_part(Board, part) :
        (pc = "ready" /\ Bridges(r))
            => \A pos \in NewAnchors(r.b) : SplitRestores(r.b, pos)

\* the pairs of tiles that wires_at reports on a common wire
Connected(nodes) ==
    {pq \in Grid \X Grid :
        TileWireSet(wires_at(nodes, pq[1])) \cap TileWireSet(wires_at(nodes, pq[2])) # {}}

Anchors(nodes) == {pos \in Grid : nodes[pos].wire # None}

Pointers(nodes) == [pos \in Grid |-> <<nodes[pos].left, nodes[pos].up>>]

\* board b has the connectivity, the anchors and the pointers of the board now
SameConnectivity(b) ==
    /\ b.pc = "ready"
    /\ Anchors(b.wire_nodes) = Anchors(wire_nodes)
    /\ Pointers(b.wire_nodes) = Pointers(wire_nodes)
    /\ Connected(b.wire_nodes) = Connected(wire_nodes)

\* the second toggle at pos, on the board b the first one left
ToggledBack(b, pos) ==
    (b.pc = "ready" /\ b # Board)
        => \A b2 \in try_toggle_node_intersection(b, pos) : SameConnectivity(b2)

\* a crossing: a horizontal and a vertical run both pass through pos
Crossing(pos) ==
    /\ wire_nodes[pos].left > 0
    /\ wire_nodes[pos].up > 0
    /\ toggle_continues(wire_nodes, pos, wire_nodes[pos], FALSE)
    /\ toggle_continues(wire_nodes, pos, wire_nodes[pos], TRUE)

\* C6: calling try_toggle_node_intersection twice on the same crossing, merged
\* or split, returns the board to its original connectivity: the grouping of
\* tiles into wires that wires_at reports (up to renaming), the anchors and
\* the pointers are as before the first call.
C6_ToggleTwice ==
    \A pos \in Region :
        (pc = "ready" /\ Crossing(pos))
            => \A b1 \in try_toggle_node_intersection(Board, pos) : ToggledBack(b1, pos)

\* the number of points of wire w now
NumPoints(w) == Cardinality(DOMAIN wires[w])

\* what C7 says of a step that placed `part` over the wires `crossed` and
\* resolved the wire w
ResolvedByCount(part, crossed, w) ==
    /\ wire_nodes'[part.pos].wire = w
    /\ w \in DOMAIN wires'
    /\ Cardinality(crossed) = 0
           => /\ w \notin DOMAIN wires
              /\ DOMAIN wires' = (DOMAIN wires) \cup {w}
    /\ Cardinality(crossed) = 1
           => /\ crossed = {w}
              /\ DOMAIN wires' = DOMAIN wires
    /\ Cardinality(crossed) >= 2
           => /\ w \in crossed
              /\ \A v \in crossed : NumPoints(v) <= NumPoints(w)
              /\ DOMAIN wires' = (DOMAIN wires) \ (crossed \ {w})
              /\ Cardinality(DOMAIN wires')
                     = Cardinality(DOMAIN wires) - (Cardinality(crossed) - 1)

\* a place_wire_part call that was no no-op has returned
PlacedStep ==
    /\ last'.op = "place_wire_part"
    /\ last'.acted
    /\ pc' = "ready"

WiresThrough(pos) == TileWireSet(wires_at(wire_nodes, pos)) \cap DOMAIN wires

\* the tiles the placed segment and the wires it joined cover: the tiles of
\* the part and the tiles at which wires_at reported a wire of `joined`
JoinedTiles(part, joined) ==
    PartTiles(part) \cup {pos \in Grid : WiresThrough(pos) \cap joined # {}}

\* what C8 says of a step that placed `part` with an end on existing wires
JoinsWire(part, w) ==
    /\ DOMAIN wires' \subseteq DOMAIN wires
    /\ w \in DOMAIN wires'
    /\ \A pos \in JoinedTiles(part, UNION {WiresThrough(e) : e \in PartEnds(part)}) :
           w \in TileWireSet(wires_at(wire_nodes', pos))

\* C8: if an endpoint of a placed segment lies on a tile through which an
\* existing wire runs (an anchor, or a tile reached through its left / up
\* pointer), the segment joins that wire: no new wire id is allocated, and
\* afterwards wires_at reports the one resulting wire at every tile of the
\* segment and of the wire it joined.
C8_EndpointJoinsWire ==
    [][(PlacedStep /\ \E e \in PartEnds(last'.part) : WiresThrough(e) # {})
           => JoinsWire(last'.part, last'.new_wire)]_vars

\* the board after a horizontal wire from (0,0) of length 4 and a vertical
\* wire from (2,0) of length 4: one wire, anchored at the four ends
CrossBoard ==
    /\ Cardinality(DOMAIN wires) = 1
    /\ Anchors(wire_nodes) = {<<0, 0>>, <<2, 0>>, <<4, 0>>, <<2, 4>>}
    /\ \A w \in DOMAIN wires : DOMAIN wires[w] = Anchors(wire_nodes)
    /\ \A i \in 1 .. 4 : wire_nodes[<<i, 0>>].left > 0 /\ wire_nodes[<<2, i>>].up > 0
    /\ \A pos \in Grid : wire_nodes[pos].left > 0 => pos[2] = 0
    /\ \A pos \in Grid : wire_nodes[pos].up > 0 => pos[1] = 2

\* board b has two wires, one on the horizontal and one on the vertical segment
TwoSegments(b) ==
    /\ b.pc = "ready"
    /\ Cardinality(DOMAIN b.wires) = 2
    /\ \E h \in DOMAIN b.wires : \E v \in (DOMAIN b.wires) \ {h} :
           /\ \A i \in {0, 1, 3, 4} : TileWireSet(wires_at(b.wire_nodes, <<i, 0>>)) = {h}
           /\ \A j \in 1 .. 4 : TileWireSet(wires_at(b.wire_nodes, <<2, j>>)) = {v}

Interior(part) == PartTiles(part) \ PartEnds(part)

\* the distance from the i-th tile of the part back to the nearest tile of
\* the part that is an anchor after the step
BackToAnchor(part, i) ==
    CHOOSE d \in 1 .. i :
        /\ wire_nodes'[Step(part.pos, part.vertical, i - d)].wire # None
        /\ \A e \in 1 .. (d - 1) :
               wire_nodes'[Step(part.pos, part.vertical, i - e)].wire = None

\* what C10 says of a step that placed `part` on the wire w
AnchorsWritten(part, w) ==
    /\ \A e \in PartEnds(part) :
           /\ wire_nodes'[e].wire = w
           /\ w \in DOMAIN wires'
           /\ e \in DOMAIN wires'[w]
    /\ \A i \in 1 .. (part.length - 1) :
           IF \/ pin_at(Board, Step(part.pos, part.vertical, i)) # NoPin
              \/ wire_nodes[Step(part.pos, part.vertical, i)].wire # None
           THEN wire_nodes'[Step(part.pos, part.vertical, i)].wire = w
           ELSE /\ wire_nodes'[Step(part.pos, part.vertical, i)].wire = None
                /\ Pointer(wire_nodes'[Step(part.pos, part.vertical, i)], part.vertical)
                       = BackToAnchor(part, i)

\* C10: after a place_wire_part call that is no no-op, both ends of the
\* trimmed segment are anchors of the resulting wire and in its point map; an
\* interior tile is an anchor of the resulting wire exactly when it holds a
\* circuit pin or was an anchor before the call; every other interior tile is
\* no anchor and its pointer on the segment's axis is its distance to the
\* nearest preceding anchor on the segment.
C10_AnchorsAndCounters ==
    [][PlacedStep => AnchorsWritten(last'.part, last'.new_wire)]_vars

\* a segment has been placed over a pin, over an anchor without a pin and over
\* a tile that is no anchor
C10_PlacedOverPinAndAnchor ==
    /\ pc = "ready"
    /\ last.op = "place_wire_part"
    /\ last.acted
    /\ \E t \in Interior(last.part) :
           pin_at(Board, t) # NoPin /\ wire_nodes[t].wire = last.new_wire
    /\ \E t \in Interior(last.part) :
           pin_at(Board, t) = NoPin /\ wire_nodes[t].wire = last.new_wire
    /\ \E t \in Interior(last.part) :
           wire_nodes[t].wire = None /\ Pointer(wire_nodes[t], last.part.vertical) > 0

\* C11: when optimize_wire_part trims the requested segment to nothing (it is
\* already covered by collinear wire, as when the same segment is placed a
\* second time), place_wire_part changes nothing: the tile index, the wire
\* registry with its point maps, the circuits and the pins stay as they are
\* and no wire id is allocated.
C11_CollapsedIsNoOp ==
    \A part \in PartsIn(Grid) :
        (pc = "ready" /\ optimize_wire_part(wire_nodes, part) = NoPart)
            => \A r \in place_wire_part(Board, part) : r.b = Board /\ r.new_wire = None

\* a placement on a board with wires has trimmed to nothing and returned
C11_PlacedAgain ==
    /\ pc = "ready"
    /\ last.op = "place_wire_part"
    /\ ~last.acted
    /\ nops >= 2
    /\ DOMAIN wires # {}
    /\ \E part \in Parts :
           /\ wire_nodes[part.pos].wire # None
           /\ wire_nodes[Step(part.pos, part.vertical, part.length)].wire # None
           /\ optimize_wire_part(wire_nodes, part) = NoPart

\* the wire of the tile d steps to the left of (above, when vertical) pos
WireBack(pos, vertical, d) ==
    IF d = 0 THEN None
    ELSE IF vertical
         THEN (IF <<pos[1], pos[2] - d>> \in Grid
               THEN wire_nodes[<<pos[1], pos[2] - d>>].wire ELSE None)
         ELSE (IF <<pos[1] - d, pos[2]>> \in Grid
               THEN wire_nodes[<<pos[1] - d, pos[2]>>].wire ELSE None)

\* what C12 says wires_at returns at a tile of the grid
WiresAtStated(pos, l, u) ==
    IF wire_nodes[pos].wire # None
    THEN [tag |-> "One", wire |-> wire_nodes[pos].wire, dir |-> "None",
          left |-> None, up |-> None]
    ELSE IF l # None /\ u # None
    THEN [tag |-> "Two", wire |-> None, dir |-> "None", left |-> l, up |-> u]
    ELSE IF l # None
    THEN [tag |-> "One", wire |-> l, dir |-> "Left", left |-> None, up |-> None]
    ELSE IF u # None
    THEN [tag |-> "One", wire |-> u, dir |-> "Up", left |-> None, up |-> None]
    ELSE [tag |-> "None", wire |-> None, dir |-> "None", left |-> None, up |-> None]

\* C12: wires_at(pos) is None when the tile is absent or empty; One with
\* direction None when the tile is an anchor; otherwise it follows the left
\* and the up pointer independently to the tiles at those distances and is
\* Two{left, up} when both are anchors (also of the same wire), One with
\* direction Left or Up when only that one is an anchor, None when neither is.
C12_WiresAt ==
    /\ \A pos \in Grid :
           wires_at(wire_nodes, pos)
               = WiresAtStated(pos, WireBack(pos, FALSE, wire_nodes[pos].left),
                               WireBack(pos, TRUE, wire_nodes[pos].up))
    /\ \A pos \in Grid : wire_nodes[pos] = EmptyNode => wires_at(wire_nodes, pos).tag = "None"
    /\ wires_at(wire_nodes, <<GridW, 0>>).tag = "None"

\* wires_at meets each of its cases on one board: an anchor, a tile with one
\* pointer, and a crossing whose two pointers lead to the same wire
C12_AllCases ==
    /\ pc = "ready"
    /\ \E pos \in Grid : wires_at(wire_nodes, pos).dir = "Left"
    /\ \E pos \in Grid : wires_at(wire_nodes, pos).dir = "Up"
    /\ \E pos \in Grid :
           /\ wires_at(wire_nodes, pos).tag = "One"
           /\ wires_at(wire_nodes, pos).dir = "None"
    /\ \E pos \in Grid :
           /\ wires_at(wire_nodes, pos).tag = "Two"
           /\ wires_at(wire_nodes, pos).left = wires_at(wire_nodes, pos).up

\* the tile at pos is an anchor and the circuit pin on it is attached to the
\* anchor's wire
PinAnchor(pos) ==
    /\ pin_at(Board, pos) # NoPin
    /\ wire_nodes[pos].wire # None
    /\ pin_wire[pin_at(Board, pos)] = wire_nodes[pos].wire

\* on board b the tile at pos is still an anchor and its pin is still attached
KeepsPin(b, pos) ==
    b.pc = "ready"
        => /\ b.wire_nodes[pos].wire # None
           /\ b.pin_wire[pin_at(Board, pos)] # None

\* C13: in every reachable state (also after the pin's wire has been merged
\* into another wire), try_toggle_node_intersection and remove_intersection
\* at a tile whose anchor has a circuit pin attached never remove that
\* anchor: the tile stays an anchor and the pin stays connected.
C13_PinAnchorStays ==
    \A pos \in Grid :
        (pc = "ready" /\ PinAnchor(pos))
            => /\ \A b \in try_toggle_node_intersection(Board, pos) : KeepsPin(b, pos)
               /\ \A split \in BOOLEAN :
                      \A b \in remove_intersection(Board, pos, split) : KeepsPin(b, pos)

\* the anchors of wire w in the row (the column, when vertical) through pos,
\* pos itself left out
RunAnchors(w, pos, vertical) ==
    {q \in Grid \ {pos} :
        /\ wire_nodes[q].wire = w
        /\ IF vertical THEN q[1] = pos[1] ELSE q[2] = pos[2]}

\* wire w is a horizontal and a vertical run that cross at the anchor pos and
\* meet nowhere else: every anchor of w lies on the row or the column through
\* pos, and both runs go on beyond pos
CrossWire(w, pos) ==
    /\ wire_nodes[pos].wire = w
    /\ w \in DOMAIN wires
    /\ Crossing(pos)
    /\ \A q \in Grid : wire_nodes[q].wire = w => (q[1] = pos[1] \/ q[2] = pos[2])

\* board b has the two runs of w as two wires
SplitInTwo(b, w, pos) ==
    /\ b.pc = "ready"
    /\ Cardinality(DOMAIN b.wires) = Cardinality(DOMAIN wires) + 1
    /\ wires_at(b.wire_nodes, pos).tag = "Two"
    /\ wires_at(b.wire_nodes, pos).left # wires_at(b.wire_nodes, pos).up
    /\ wires_at(b.wire_nodes, pos).left \in DOMAIN b.wires
    /\ wires_at(b.wire_nodes, pos).up \in DOMAIN b.wires
    /\ DOMAIN b.wires[wires_at(b.wire_nodes, pos).left] = RunAnchors(w, pos, FALSE)
    /\ DOMAIN b.wires[wires_at(b.wire_nodes, pos).up] = RunAnchors(w, pos, TRUE)

\* C14: when one wire consists of a horizontal and a vertical run that are
\* connected only through the anchor at their crossing, remove_intersection
\* with split at that anchor leaves two wires with distinct ids, one holding
\* exactly the anchors of the horizontal run and one exactly those of the
\* vertical run, and wires_at at the crossing is Two{left, up}, left # up.
C14_CrossingSplits ==
    \A pos \in Grid : \A w \in DOMAIN wires :
        (pc = "ready" /\ CrossWire(w, pos))
            => \A b \in remove_intersection(Board, pos, TRUE) : SplitInTwo(b, w, pos)

\* two points of wire id are neighbouring anchors on board b: one is found
\* from the other by node_neighboring_intersections
Linked(b, id, p, q) ==
    \/ q \in node_neighboring_intersections(b.wire_nodes, p, id)
    \/ p \in node_neighboring_intersections(b.wire_nodes, q, id)

\* the points of wire id that are connected with a point of `group`
RECURSIVE Reach(_, _, _)
Reach(b, id, group) ==
    IF \A n \in (DOMAIN b.wires[id]) \ group : \A p \in group : ~Linked(b, id, p, n)
    THEN group
    ELSE Reach(b, id, group \cup {n \in (DOMAIN b.wires[id]) \ group :
                                     \E p \in group : Linked(b, id, p, n)})

\* the connected components of the points of wire id on board b
Components(b, id) == {Reach(b, id, {p}) : p \in DOMAIN b.wires[id]}

\* what C15 says of the board s that split_wires(id) makes of board b
SplitAsStated(b, s, id, comps) ==
    IF Cardinality(comps) <= 1 THEN s = b
    ELSE /\ s.pc = "ready"
         /\ DOMAIN b.wires \subseteq DOMAIN s.wires
         /\ Cardinality(DOMAIN s.wires)
                = Cardinality(DOMAIN b.wires) + Cardinality(comps) - 1
         /\ DOMAIN s.wires[id] \in comps
         /\ \A c \in comps : Cardinality(c) <= Cardinality(DOMAIN s.wires[id])
         /\ \A c \in comps \ {DOMAIN s.wires[id]} :
                \E n \in (DOMAIN s.wires) \ (DOMAIN b.wires) :
                    /\ DOMAIN s.wires[n] = c
                    /\ \A q \in c : s.wire_nodes[q].wire = n
         /\ \A w \in (DOMAIN b.wires) \ {id} : s.wires[w] = b.wires[w]

\* remove_intersection with split at pos gets as far as its split_wires call
SplitCalled(pos) ==
    /\ pc = "ready"
    /\ wire_nodes[pos].wire \in DOMAIN wires
    /\ wire_nodes[pos].up > 0
    /\ wire_nodes[pos].left > 0
    /\ remove_intersection(Board, pos, FALSE) # {Board}
    /\ set_wire_point(Board, pos, None).b.pc = "ready"

\* the split_wires call of remove_intersection at pos does what C15 says
SplitsAsStated(b, id) ==
    \A s \in split_wires(b, id) : SplitAsStated(b, s, id, Components(b, id))

\* C15: split_wires(id) computes the connected components of the wire's
\* points under the neighbouring-anchor relation; with one component nothing
\* changes; otherwise a component of maximal size keeps the id, every other
\* component gets its own newly allocated id, the point sets of the resulting
\* wires partition the original point set, and every anchor tile of a moved
\* component carries the new id.
C15_SplitByComponents ==
    \A pos \in Grid :
        SplitCalled(pos)
            => SplitsAsStated(set_wire_point(Board, pos, None).b, wire_nodes[pos].wire)

\* the point of `pts` nearest to pos on its left (above it, when vertical)
NearestBack(pts, pos, vertical) ==
    IF \A q \in pts : ~(IF vertical THEN q[1] = pos[1] /\ q[2] < pos[2]
                                    ELSE q[2] = pos[2] /\ q[1] < pos[1])
    THEN NoPos
    ELSE CHOOSE q \in pts :
             /\ (IF vertical THEN q[1] = pos[1] /\ q[2] < pos[2]
                              ELSE q[2] = pos[2] /\ q[1] < pos[1])
             /\ \A x \in pts :
                    (IF vertical THEN x[1] = pos[1] /\ x[2] < pos[2]
                                 ELSE x[2] = pos[2] /\ x[1] < pos[1])
                        => (IF vertical THEN x[2] <= q[2] ELSE x[1] <= q[1])

\* the flags of the points `mine` of one resulting wire are as C16 says: a
\* flag is set only if it was set in `old` and the nearest point of `old` in
\* that direction is in `mine` as well
FlagsKept(old, new, mine) ==
    \A q \in mine :
        /\ new[q].left => (old[q].left /\ NearestBack(DOMAIN old, q, FALSE) \in mine)
        /\ new[q].up => (old[q].up /\ NearestBack(DOMAIN old, q, TRUE) \in mine)

\* what C16 says of the result r of split_wire(id, G) on board b
SplitWireStated(b, r, id, G) ==
    /\ r.ret # None
    /\ r.ret \notin DOMAIN b.wires
    /\ r.ret \in DOMAIN r.b.wires
    /\ DOMAIN r.b.wires[id] = (DOMAIN b.wires[id]) \ G
    /\ DOMAIN r.b.wires[r.ret] = (DOMAIN b.wires[id]) \cap G
    /\ FlagsKept(b.wires[id], r.b.wires[id], DOMAIN r.b.wires[id])
    /\ FlagsKept(b.wires[id], r.b.wires[r.ret], DOMAIN r.b.wires[r.ret])
    /\ \A q \in (DOMAIN b.wires[id]) \cap G :
           /\ r.b.wires[r.ret][q].pin = b.wires[id][q].pin
           /\ b.wires[id][q].pin \in DOMAIN b.pin_wire
                  => r.b.pin_wire[b.wires[id][q].pin] = r.ret

\* the sets of positions split_wire is given: at most SplitMax tiles of the
\* region, points of the wire or not
SplitMax == 2
SplitSets == {G \in SUBSET Region : Cardinality(G) <= SplitMax}

\* C16: after split_wire(id, G) on an existing wire, the points of the
\* original wire are its old points without G and the points of the new wire
\* are the old points in G; a point of either wire has its left (up) flag
\* set only if it was set before and the nearest anchor of the old wire in
\* that direction belongs to the same resulting wire; every pin attached to a
\* moved point references the new wire id.
C16_SplitWire ==
    \A id \in DOMAIN wires : \A G \in SplitSets :
        \A r \in split_wire(Board, id, G) : SplitWireStated(Board, r, id, G)


\* the footprint of the not gate at pos lies on the grid and holds a tile
\* that a circuit already covers
Occupied(pos) ==
    /\ Footprint(pos, NotSize) \subseteq Grid
    /\ \E p \in Footprint(pos, NotSize) : circuit_nodes[p].circuit # None

\* board b holds what the current board holds: the same circuits and pins,
\* the same circuit tiles, the same wires and wire tiles, and the call returned
NothingWritten(b) ==
    /\ b.pc = "ready"
    /\ b.circuits = circuits /\ b.pin_wire = pin_wire
    /\ b.circuit_nodes = circuit_nodes
    /\ b.wires = wires /\ b.wire_nodes = wire_nodes

\* C17: place_circuit at a position where a tile of the preview's footprint
\* is already occupied by a circuit writes nothing: no circuit id is
\* allocated, no circuit tile is changed and no wire anchor is created.
C17_OverlapRejected ==
    \A pos \in Grid :
        pc = "ready" /\ Occupied(pos) =>
            NothingWritten(place_circuit(Board, pos, NotSize, NotPins))

\* a board with a circuit and a wire where a footprint overlaps the circuit
\* in one tile only
C17_PartialOverlap ==
    /\ pc = "ready" /\ DOMAIN wires # {}
    /\ \E pos \in Grid :
           /\ Occupied(pos)
           /\ \E p \in Footprint(pos, NotSize) : circuit_nodes[p].circuit = None

\* store `new` is store `old` with one item more, under an id `old` did not
\* hold, and every item of `old` is where it was
OneMore(old, new) ==
    /\ DOMAIN old \subseteq DOMAIN new
    /\ Cardinality(DOMAIN new \ DOMAIN old) = 1
    /\ \A i \in DOMAIN old : new[i] = old[i]

Added(old, new) == CHOOSE i \in DOMAIN new : i \notin DOMAIN old

\* the pin ids (circuit id, local index) of the pins of circuit id
PinIds(id, pins) == {<<id, i - 1>> : i \in 1 .. Len(pins)}

\* what C18 says of the board s that create_circuit(pos, preview) makes
CircuitCreated(s, pos) ==
    /\ OneMore(circuits, s.circuits)
    /\ s.circuits[Added(circuits, s.circuits)] =
           [pos |-> pos, size |-> NotSize, pins |-> NotPins]
    /\ DOMAIN s.pin_wire = DOMAIN pin_wire \cup PinIds(Added(circuits, s.circuits), NotPins)
    /\ PinIds(Added(circuits, s.circuits), NotPins) \cap DOMAIN pin_wire = {}
    /\ \A q \in DOMAIN pin_wire : s.pin_wire[q] = pin_wire[q]

\* what C18 says of the board s that create_wire() makes
WireCreated(s) ==
    /\ OneMore(wires, s.wires)
    /\ s.wires[Added(wires, s.wires)] = EmptyMap

\* C18: create_circuit returns an id no existing circuit holds, stores the
\* new circuit under it and gives its i-th pin the id (i, circuit id);
\* create_wire returns an id no existing wire holds and registers a wire
\* under it. Nothing that was stored before is replaced.
C18_FreshIds ==
    /\ WireCreated(create_wire(Board))
    /\ \A pos \in Grid : CircuitCreated(create_circuit(Board, pos, NotSize, NotPins), pos)

\* a merge has freed a wire id below a live one and the wire placed last,
\* which crossed no wire, took the freed id
C18_FreedIdReused ==
    /\ pc = "ready" /\ last.before = 1
    /\ last.op = "place_wire_part" /\ last.k = 0 /\ last.new_wire \in DOMAIN wires
    /\ \E w \in DOMAIN wires : last.new_wire < w

\* the wire ids a tile still holds although the registry has no such wire
StaleIds == {wire_nodes[p].wire : p \in Grid} \ (DOMAIN wires \cup {None})

\* wire ids to call the operations with: the registered ones, the free ones
\* next to them and the stale ones
IdsTried == (0 .. Cardinality(DOMAIN wires) + 1) \cup DOMAIN wires \cup StaleIds

MissingIds == IdsTried \ DOMAIN wires

\* merge_wires of both levels leaves the board as it is
MergeIsNoOp(id, with) ==
    /\ CircuitBoard_merge_wires(Board, id, with) = Board
    /\ merge_wires(Board, id, with) = Board

\* C19: operations given a wire id that does not exist change nothing and
\* return: merge_wires where either id is missing (at both levels) or where
\* both ids are equal (ActiveCircuitBoard level) removes no wire and changes
\* no tile or pin; CircuitBoard::split_wire on a missing id returns None and
\* creates no wire; split_wires on a missing id changes nothing.
C19_MissingIdsAreNoOps ==
    pc = "ready" =>
        /\ \A id \in MissingIds : \A with \in IdsTried :
               MergeIsNoOp(id, with) /\ MergeIsNoOp(with, id)
        /\ \A id \in IdsTried : merge_wires(Board, id, id) = Board
        /\ \A id \in MissingIds : \A G \in SplitSets :
               split_wire(Board, id, G) = {[b |-> Board, ret |-> None]}
        /\ \A id \in MissingIds : split_wires(Board, id) = {Board}

\* a board where a merge has freed an id below a live one and a tile still
\* holds an id that is gone
C19_StaleIdOnBoard ==
    /\ pc = "ready" /\ StaleIds # {}
    /\ \E w \in DOMAIN wires : \E v \in MissingIds : v < w

\* C20: the board write lock is held from the first change a topology
\* mutation makes to its last, so a thread that takes the board read lock
\* never finds the board half-way through place_wire_part: no registered
\* wire without points while the call is under way.
C20_WriteLockHeldThroughout ==
    /\ call.at = "resolved" => lock = "write"
    /\ ~(seen.mid /\ seen.empty # {})

\* what C21 says of the signal state `new` that set_state(pin, value) makes
\* of `old`
SetStateStated(old, new, pin, value) ==
    IF pin_value(old.pin_state, pin) = value THEN new = old
    ELSE /\ pin_value(new.pin_state, pin) = value
         /\ \A q \in DOMAIN old.pin_wire \ {pin} :
                pin_value(new.pin_state, q) = pin_value(old.pin_state, q)
         /\ new.pin_wire = old.pin_wire /\ new.wire_state = old.wire_state
         /\ new.wire_queue = IF old.pin_wire[pin] # None
                             THEN Append(old.wire_queue, old.pin_wire[pin])
                             ELSE old.wire_queue

\* C21: set_state on an output pin compares the new value with the stored
\* one: if they are equal nothing changes and no wire is marked; if they
\* differ the value is stored and the connected wire is marked once,
\* exactly when the pin is connected to a wire.
C21_SetStateCompares ==
    \A pin \in OutPins : \A value \in WireStates :
        SetStateStated(Signals, set_state(Signals, pin, value), pin, value)

\* one output pin is connected and holds a value, the other is disconnected
\* and holds a value, and a wire is marked
C21_BothCases ==
    /\ wire_queue # <<>>
    /\ \E p \in OutPins : pin_wire[p] # None /\ pin_value(pin_state, p) = "True"
    /\ \E p \in OutPins : pin_wire[p] = None /\ pin_value(pin_state, p) = "False"

\* the signal state once every marked wire has been recomputed
RECURSIVE Settled(_)
Settled(sg) == IF sg.wire_queue = <<>> THEN sg ELSE Settled(run_wire_update(sg))

\* the stored value of a wire
StoredValue(sg, wire) == pin_value(sg.wire_state, wire)

\* pins p and q are both connected to the wire, one asserts False and the
\* other True, and the wire is not waiting for recomputation
Conflicting(p, q, wire) ==
    /\ p # q /\ pin_wire[p] = wire /\ pin_wire[q] = wire
    /\ pin_value(pin_state, p) = "False" /\ pin_value(pin_state, q) = "True"
    /\ \A i \in 1 .. Len(wire_queue) : wire_queue[i] # wire

\* after pin p is disconnected and the marked wires are recomputed, the wire
\* holds the value of pin q
RestoredBy(p, q, wire) ==
    StoredValue(Settled(CircuitPin_set_wire(Signals, p, None, TRUE)), wire)
        = pin_value(pin_state, q)

\* C22: when two circuits assert False and True on the same wire the wire's
\* value is Error (conflict); when either pin is then disconnected with
\* wire updates enabled, the wire's value becomes the value of the
\* remaining driver.
C22_ConflictAndRestore ==
    \A p \in OutPins : \A q \in OutPins : \A wire \in DOMAIN wires :
        Conflicting(p, q, wire) =>
            /\ StoredValue(Signals, wire) = "Error"
            /\ RestoredBy(p, q, wire)
            /\ RestoredBy(q, p, wire)

\* two drivers in conflict on a wire whose value has been recomputed
C22_InConflict ==
    /\ wire_queue = <<>>
    /\ loading = NoLoading
    /\ \E p \in OutPins : \E q \in OutPins : \E wire \in DOMAIN wires :
           Conflicting(p, q, wire) /\ StoredValue(Signals, wire) = "Error"

\* the not gate can be placed at pos: its footprint is on the grid and free
FreeSpot(pos) ==
    /\ Footprint(pos, NotSize) \subseteq Grid
    /\ \A p \in Footprint(pos, NotSize) : circuit_nodes[p].circuit = None

\* what C23 says of the board r that place_circuit makes of the current
\* board for a behaviour answering `interval`: the circuit cid is registered
\* for updates, with that interval, exactly when the call got past its pin
\* loop and the answer was Some; every other registration is as it was
ScheduledAsStated(r, cid, interval) ==
    IF r.pc = "ready" /\ interval # None
    THEN /\ r.updates = updates \cup {cid}
         /\ r.intervals = MapInsert(intervals, cid, interval)
         /\ \A i \in 1 .. Len(NotPins) : <<cid, i - 1>> \in DOMAIN r.pin_wire
    ELSE r.updates = updates /\ r.intervals = intervals

\* C23: a circuit has a scheduled periodic update exactly when its
\* behaviour's update_interval returned an interval: place_circuit inserts
\* the new circuit id into board.updates and schedules the interval iff
\* update_interval returns Some(duration), only once the pins have been
\* attached, and registers nothing when it returns None.
C23_ScheduledIffInterval ==
    /\ updates = DOMAIN intervals /\ updates \subseteq DOMAIN circuits
    /\ \A pos \in Grid : \A interval \in Intervals :
           pc = "ready" /\ FreeSpot(pos) =>
               ScheduledAsStated(
                   place_circuit_timed(Board, pos, NotSize, NotPins, interval),
                   first_free_pos(circuits), interval)

\* two circuits have been placed on a board with a wire, one with an
\* interval and one without
C23_OneScheduledOneNot ==
    /\ pc = "ready" /\ last.op = "place_circuit" /\ last.acted
    /\ Cardinality(DOMAIN circuits) = 2 /\ Cardinality(updates) = 1
    /\ DOMAIN wires # {}

\* the tiles p and q have a wire in common according to wires_at
SharesWire(nodes, p, q) ==
    TileWireSet(wires_at(nodes, p)) \cap TileWireSet(wires_at(nodes, q)) # {}

\* two tile indexes group the tiles into wires in the same way: wires_at
\* gives the same kind of answer at every tile, and the same pairs of
\* tiles share a wire
SameGrouping(n1, n2) ==
    /\ \A p \in Grid : wires_at(n1, p).tag = wires_at(n2, p).tag
    /\ \A p \in Grid : \A q \in Grid : SharesWire(n1, p, q) <=> SharesWire(n2, p, q)

\* C24: after any sequence of place_wire_part calls, a fresh board view
\* over the same board re-derives the tile index from the stored wires:
\* wires_at groups the tiles into wires as it did before.
C24_ReloadKeepsGrouping ==
    pc = "ready" =>
        SameGrouping(wire_nodes, ActiveCircuitBoard_new(Board).wire_nodes)

\* the records that stay: their type has a preview and their blob loads
Loads(d) == d.ty \in TypeNames /\ d.imp

\* every record of ds that loads is at position f[i] of the kept ones, f
\* keeps the order, and nothing else is kept
KeptInOrder(ds, kept) ==
    /\ Len(kept) = Cardinality({i \in 1 .. Len(ds) : Loads(ds[i])})
    /\ \A i \in 1 .. Len(ds) :
           Loads(ds[i]) =>
               /\ kept[Cardinality({j \in 1 .. i : Loads(ds[j])})][1] = ds[i]
               /\ kept[Cardinality({j \in 1 .. i : Loads(ds[j])})][2].ty = ds[i].ty

PasteAsStated(data, preview) ==
    /\ preview.wires = data.wires
    /\ KeptInOrder(data.circuits, preview.circuits)

CreateAsStated(storage, shift, app) ==
    /\ (storage.board # Nothing /\ ~storage.board[1].parses) => app.board = "new"
    /\ (storage.previews # Nothing /\ ~storage.previews[1].parses) =>
           \A ty \in TypeNames : app.previews[ty] = "from_impl"

\* C25: loading never aborts on an unknown type tag or on a blob that does
\* not load: the preview built from pasted data keeps every wire record and,
\* in their order, exactly the circuit records whose type has a registered
\* preview and whose blob loads; a start whose stored board does not parse
\* gets a new empty board, and one whose stored previews do not parse gets
\* the default previews.
C25_LoadSkipsWhatFails ==
    /\ \A i \in 1 .. Len(loading.paste) :
           PasteAsStated(loading.paste[i].data, loading.paste[i].preview)
    /\ \A i \in 1 .. Len(loading.app) :
           CreateAsStated(loading.app[i].storage, loading.app[i].shift,
                          loading.app[i].app)

\* data was pasted whose middle record of three does not load while the
\* records around it do, with different types, and the application started
\* from a board string and a preview string that both fail to parse
C25_DroppedInTheMiddle ==
    /\ loading.paste # <<>> /\ loading.app # <<>>
    /\ Len(loading.paste[1].data.circuits) = 3
    /\ Len(loading.paste[1].data.wires) = 1
    /\ Loads(loading.paste[1].data.circuits[1])
    /\ ~Loads(loading.paste[1].data.circuits[2])
    /\ Loads(loading.paste[1].data.circuits[3])
    /\ loading.paste[1].data.circuits[1].ty # loading.paste[1].data.circuits[3].ty
    /\ Len(loading.paste[1].preview.circuits) = 2
    /\ loading.app[1].storage.board # Nothing
    /\ ~loading.app[1].storage.board[1].parses
    /\ loading.app[1].storage.previews # Nothing
    /\ ~loading.app[1].storage.previews[1].parses
    /\ loading.app[1].storage.previews[1].data # {}

\* C26: set_wire_point terminates on every tile index: no call reaches a
\* state where a pass of fix_pointers goes on without end, also when the
\* anchor taken out has pointer 1 and the tile after it is a non-anchor
\* with pointer 1.
C26_FixPointersTerminates == pc # "diverged"

\* C27: no board operation asks for the board's read lock while its thread
\* holds the board's write lock: set_wire_point never blocks on itself, also
\* when the changed tile is covered by a circuit.
C27_NoSelfDeadlock == pc # "deadlock"

\* C28: after any board operation returns, every anchor tile is recorded in
\* its wire: for every tile holding wire id W, wire W exists and the tile's
\* position is a key of W's point map.
C28_AnchorsAreWirePoints ==
    pc = "ready" =>
        \A pos \in Grid :
            wire_nodes[pos].wire # None =>
                /\ wire_nodes[pos].wire \in DOMAIN wires
                /\ pos \in DOMAIN wires[wire_nodes[pos].wire]

\* the tiles circuit c covers
CircuitTiles(c) == Footprint(circuits[c].pos, circuits[c].size)

\* the tile at pos belongs to an existing circuit, at the offset it records,
\* and the offset lies inside the circuit's size
TileOfItsCircuit(pos) ==
    /\ circuit_nodes[pos].circuit \in DOMAIN circuits
    /\ circuit_nodes[pos].origin_dist =
           <<pos[1] - circuits[circuit_nodes[pos].circuit].pos[1],
             pos[2] - circuits[circuit_nodes[pos].circuit].pos[2]>>
    /\ circuit_nodes[pos].origin_dist[1] \in
           0 .. circuits[circuit_nodes[pos].circuit].size[1] - 1
    /\ circuit_nodes[pos].origin_dist[2] \in
           0 .. circuits[circuit_nodes[pos].circuit].size[2] - 1

\* C29: after any sequence of place_circuit calls the footprints of distinct
\* circuits are disjoint, and every circuit tile holding circuit id c belongs
\* to an existing circuit c, with origin_dist equal to the tile position
\* minus c's position and inside c's size.
C29_FootprintsDisjoint ==
    pc = "ready" =>
        /\ \A c \in DOMAIN circuits : \A d \in DOMAIN circuits :
               c # d => CircuitTiles(c) \cap CircuitTiles(d) = {}
        /\ \A pos \in Grid :
               circuit_nodes[pos].circuit # None => TileOfItsCircuit(pos)

\* two circuits are on the board, the second one placed by the last call
\* next to the first, on a board that holds a wire as well
C29_TwoCircuitsPlaced ==
    /\ pc = "ready" /\ last.op = "place_circuit" /\ last.acted
    /\ Cardinality(DOMAIN circuits) = 2
    /\ DOMAIN wires # {}
    /\ \E pos \in Grid : circuit_nodes[pos].circuit = 0
    /\ \E pos \in Grid : circuit_nodes[pos].circuit = 1

\* the wire whose run perpendicular to a part of direction `vertical` passes
\* over the tile at pos, None when there is none
PerpendicularWire(nodes, pos, vertical) ==
    PointedWire(nodes, pos, ~vertical, Pointer(nodes[pos], ~vertical))

\* before the call the tile at pos is no anchor and a registered wire runs
\* over it, perpendicular to the part
CrossedOver(pos, part) ==
    /\ wire_nodes[pos].wire = None
    /\ PerpendicularWire(wire_nodes, pos, part.vertical) \in DOMAIN wires

\* after the call the tile at pos is still no anchor, wire w is what it was,
\* and wires_at reports two different wires there
NotConnected(pos, w) ==
    /\ wire_nodes'[pos].wire = None
    /\ w \in DOMAIN wires' /\ wires'[w] = wires[w]
    /\ wires_at(wire_nodes', pos).tag = "Two"
    /\ wires_at(wire_nodes', pos).left # wires_at(wire_nodes', pos).up

CrossedApart(pos, part) ==
    /\ CrossedOver(pos, part)
    /\ PerpendicularWire(wire_nodes, pos, part.vertical)
           \notin wires_crossed_of(Board, part)

WireOnAxis(pos, vertical) ==
    PointedWire(wire_nodes, pos, vertical, Pointer(wire_nodes[pos], vertical))

\* the tile at pos is no anchor and both of its pointers lead to anchors of
\* registered wires
UnconnectedCrossing(pos) ==
    /\ wire_nodes[pos].wire = None
    /\ WireOnAxis(pos, FALSE) \in DOMAIN wires
    /\ WireOnAxis(pos, TRUE) \in DOMAIN wires

\* in board b, of the wires big and small exactly big is left
Survives(b, big, small) ==
    b.pc = "ready" => (big \in DOMAIN b.wires /\ small \notin DOMAIN b.wires)

\* what C31 states about the crossing of wire l (left) and wire u (up) at pos
MergedByPoints(b, l, u) ==
    /\ (l = u) => (b.pc = "ready" => DOMAIN b.wires = DOMAIN wires)
    /\ (l # u /\ Cardinality(DOMAIN wires[l]) > Cardinality(DOMAIN wires[u]))
           => Survives(b, l, u)
    /\ (l # u /\ Cardinality(DOMAIN wires[u]) > Cardinality(DOMAIN wires[l]))
           => Survives(b, u, l)
    /\ (l # u /\ Cardinality(DOMAIN wires[u]) = Cardinality(DOMAIN wires[l]))
           => (Survives(b, u, l) \/ Survives(b, l, u))

\* C31: create_wire_intersection_at_node without a given wire, on a
\* non-anchor tile crossed by two different wires, keeps the wire with more
\* points and removes the one with fewer (either on a tie); when both
\* pointers lead to the same wire, no wire is removed.
C31_MorePointsSurvives ==
    pc = "ready" =>
        \A pos \in Grid :
            UnconnectedCrossing(pos) =>
                MergedByPoints(create_wire_intersection(Board, pos, None).b,
                               WireOnAxis(pos, FALSE), WireOnAxis(pos, TRUE))

\* a run arrives at the tile at pos from the left (from above)
ExtendsBack(pos, vertical) == Pointer(wire_nodes[pos], vertical) > 0

\* a run goes on from the tile at pos to the right (downwards): the next
\* tile lies on a run that comes from pos or from beyond it
ExtendsOn(pos, vertical) ==
    /\ Step(pos, vertical, 1) \in Grid
    /\ Pointer(wire_nodes[Step(pos, vertical, 1)], vertical) > 0

\* the tile at pos is empty, or on some axis the wire reaches it from one
\* side only
NotStraight(pos) ==
    \/ wire_nodes[pos] = EmptyNode
    \/ \E vertical \in BOOLEAN : ExtendsBack(pos, vertical) # ExtendsOn(pos, vertical)

\* C32: try_toggle_node_intersection changes nothing (tile index, wire
\* registry, pins) when the tile is absent or empty and when the wire does
\* not pass straight through the tile on an axis, as at wire endpoints,
\* corners and T-junctions.
C32_ToggleNeedsStraight ==
    pc = "ready" =>
        /\ try_toggle_node_intersection(Board, <<GridW, 0>>) = {Board}
        /\ \A pos \in Grid :
               NotStraight(pos) => try_toggle_node_intersection(Board, pos) = {Board}

\* the run that arrives at pos on the axis goes on through it: the next
\* tile counts its distance from pos when pos is an anchor, else from the
\* anchor pos counts from
PassesThrough(pos, vertical) ==
    /\ ExtendsBack(pos, vertical)
    /\ Step(pos, vertical, 1) \in Grid
    /\ Pointer(wire_nodes[Step(pos, vertical, 1)], vertical)
           = (IF wire_nodes[pos].wire # None THEN 1
              ELSE Pointer(wire_nodes[pos], vertical) + 1)

\* one registered wire passes straight through pos on one axis and there is
\* no wire at pos on the other axis
StraightOnOneAxis(pos) ==
    /\ Cardinality(WiresThrough(pos)) = 1
    /\ \E vertical \in BOOLEAN :
           /\ PassesThrough(pos, vertical)
           /\ ~ExtendsBack(pos, ~vertical) /\ ~ExtendsOn(pos, ~vertical)

\* board b has the wires of the current board, and wires_at reports in b
\* what it reports now at every tile but pos that wire w reaches
OnlyAnchorChanged(b, pos, w) ==
    /\ b.pc = "ready"
    /\ DOMAIN b.wires = DOMAIN wires
    /\ \A q \in Grid \ {pos} :
           w \in TileWireSet(wires_at(wire_nodes, q))
               => TileWireSet(wires_at(b.wire_nodes, q))
                      = TileWireSet(wires_at(wire_nodes, q))

\* C33: toggling a tile through which a single wire passes straight on one
\* axis only changes only whether that tile is an anchor: no wire is
\* created, removed or split, and wires_at at every other tile of the wire
\* returns the same wire as before.
C33_ToggleOnStraightRun ==
    pc = "ready" =>
        \A pos \in Grid :
            StraightOnOneAxis(pos) =>
                \A b \in try_toggle_node_intersection(Board, pos) :
                    \A w \in WiresThrough(pos) : OnlyAnchorChanged(b, pos, w)

\* C34: the result of CircuitBoard::split_wire(id, G) does not depend on the
\* order in which the positions of G are iterated: the point sets and the
\* left/up flags of the original and of the new wire are the same in every
\* order.
C34_SplitWireDeterministic ==
    \A id \in DOMAIN wires : \A G \in SplitSets :
        \A r1 \in split_wire(Board, id, G) : \A r2 \in split_wire(Board, id, G) :
            /\ r1.ret = r2.ret
            /\ r1.b.wires = r2.b.wires

\* no wire of the registry r has an empty point map
NoEmptyWire(r) == \A w \in DOMAIN r : DOMAIN r[w] # {}

\* C35: after any board operation returns, no wire in the registry has an
\* empty point map; split_wire never registers a new wire with zero points,
\* also when none of the given positions belongs to the wire.
C35_NoEmptyWire ==
    pc = "ready" =>
        /\ NoEmptyWire(wires)
        /\ \A id \in DOMAIN wires : \A G \in SplitSets :
               \A r \in split_wire(Board, id, G) :
                   r.ret # None => DOMAIN r.b.wires[r.ret] # {}

\* the registry the board operations leave holds no wire without points
RegistryHasNoEmptyWire == pc = "ready" => NoEmptyWire(wires)

\* the tile of pin i of a not gate placed at pos
PinTile(pos, i) == <<pos[1] + NotPins[i][1], pos[2] + NotPins[i][2]>>

\* in board b the pin is attached to the wire of the anchor at tile t
PinAttached(b, t, pin) ==
    /\ b.wire_nodes[t].wire # None
    /\ b.pin_wire[pin] = b.wire_nodes[t].wire
    /\ b.wire_nodes[t].wire \in DOMAIN b.wires
    /\ t \in DOMAIN b.wires[b.wire_nodes[t].wire]
    /\ b.wires[b.wire_nodes[t].wire][t].pin = pin

\* what C36 states of pin `pin` at tile t after the placement that gave b
PinAsStated(b, t, pin) ==
    /\ wires_at(wire_nodes, t).tag # "None" => PinAttached(b, t, pin)
    /\ wires_at(wire_nodes, t).tag = "None" => b.pin_wire[pin] = None
    /\ (/\ wires_at(wire_nodes, t).tag = "Two"
        /\ wires_at(wire_nodes, t).left # wires_at(wire_nodes, t).up
        /\ TileWireSet(wires_at(wire_nodes, t)) \subseteq DOMAIN wires)
           => Cardinality(TileWireSet(wires_at(wire_nodes, t)) \cap DOMAIN b.wires) = 1

\* the placement at pos returned and every pin is as C36 states
PinsAsStated(b, pos, cid) ==
    /\ b.pc = "ready"
    /\ cid \in DOMAIN b.circuits
    /\ \A i \in 1 .. Len(NotPins) : PinAsStated(b, PinTile(pos, i), <<cid, i - 1>>)

\* C36: after a place_circuit that is not rejected, every pin of the new
\* circuit whose tile carries a wire, as an anchor or as a pass-through
\* tile, is attached to it: the tile is an anchor, the pin's wire is the
\* tile's wire id and that wire's point at the tile references the pin; a
\* pin whose tile carries no wire stays unconnected; a pin tile that was an
\* unconnected crossing of two wires has the two merged into one.
C36_PinsAttached ==
    pc = "ready" =>
        \A pos \in Grid :
            FreeSpot(pos) =>
                PinsAsStated(place_circuit(Board, pos, NotSize, NotPins), pos,
                             first_free_pos(circuits))

\* the same for the placements that return
PinsAttachedOnReturn ==
    pc = "ready" =>
        \A pos \in Grid :
            (FreeSpot(pos)
             /\ place_circuit(Board, pos, NotSize, NotPins).pc = "ready")
                => PinsAsStated(place_circuit(Board, pos, NotSize, NotPins), pos,
                                first_free_pos(circuits))

\* what C37 says of the signal state `new` that update_signals of circuit
\* cid makes of `old`
InverseOf(value, input) ==
    /\ input = "True" => value = "False"
    /\ input = "False" => value = "True"
    /\ input = "None" => value = "None"
    /\ input = "Error" => value = "Error"

UpdateSignalsStated(old, new, cid) ==
    /\ InverseOf(pin_value(new.pin_state, <<cid, 1>>),
                 pin_value(old.pin_state, <<cid, 0>>))
    /\ pin_value(new.pin_state, <<cid, 0>>) = pin_value(old.pin_state, <<cid, 0>>)
    /\ new.wire_queue # old.wire_queue =>
           /\ pin_value(new.pin_state, <<cid, 1>>) # pin_value(old.pin_state, <<cid, 1>>)
           /\ new.wire_queue = Append(old.wire_queue, old.pin_wire[<<cid, 1>>])

\* C37: the not gate's update_signals sets its output pin to the inverse of
\* its input pin's value: True gives False and False gives True, None and
\* Error are passed through unchanged; the output wire is marked for update
\* only when the output value changes.
C37_NotGateInverts ==
    \A cid \in DOMAIN circuits :
        UpdateSignalsStated(Signals, update_signals(Signals, cid), cid)

\* update_signals has just turned the output of a gate whose input is True
\* to False and marked the output's wire
C37_InvertedAndMarked ==
    /\ last.op = "update_signals"
    /\ last.acted
    /\ pin_value(pin_state, <<last.k, 0>>) = "True"
    /\ pin_value(pin_state, <<last.k, 1>>) = "False"
    /\ pin_wire[<<last.k, 1>>] # None
    /\ wire_queue # <<>>
    /\ wire_queue[Len(wire_queue)] = pin_wire[<<last.k, 1>>]

\* position p lies inside size: 0 <= x < size.x and 0 <= y < size.y
InsideSize(p, size) ==
    /\ 0 <= p[1] /\ p[1] < size[1]
    /\ 0 <= p[2] /\ p[2] < size[2]

\* the pins of the description d whose declared position lies inside the
\* declared size
DeclaredInside(d) == {i \in DOMAIN d.pins : InsideSize(d.pins[i], d.size)}

\* no subtraction that gave the position underflowed
NoUnderflow(p) == p[1] >= 0 /\ p[2] >= 0

\* what C38 says of the description d
DescribedAsStated(d) ==
    /\ \A i \in DeclaredInside(d) :
           /\ NoUnderflow(d.to.pins[i])
           /\ InsideSize(d.to.pins[i], d.to.size)
    /\ \A i \in DeclaredInside(d) : \A j \in DeclaredInside(d) :
           d.pins[i] # d.pins[j] => d.to.pins[i] # d.to.pins[j]

\* C38: for every default direction and every direction, each rotated pin
\* position that describe_directional_circuit computes with rotate_pos lies
\* inside the rotated size whenever the declared position lies inside the
\* declared size, no u32 subtraction underflows, and distinct declared
\* positions map to distinct rotated positions.
C38_RotatedPinsInside ==
    \A i \in DOMAIN description.described :
        DescribedAsStated(description.described[i])

\* a circuit that is not square, with two distinct pins inside it, has been
\* described turned a quarter from its default direction
C38_TurnedOblong ==
    /\ description.described # <<>>
    /\ description.described[1].size[1] # description.described[1].size[2]
    /\ description.described[1].to.size # description.described[1].size
    /\ Len(description.described[1].pins) = 2
    /\ DeclaredInside(description.described[1]) = {1, 2}
    /\ description.described[1].pins[1] # description.described[1].pins[2]

\* the four directions in clockwise order on the screen, where y grows
\* downwards (unit_vector: Up is [0, -1], Right is [1, 0])
Compass == <<"Up", "Right", "Down", "Left">>

CompassIndex(d) == CHOOSE i \in 1 .. 4 : Compass[i] = d

\* d turned n quarter turns clockwise, and counterclockwise
Clockwise(d, n) == Compass[((CompassIndex(d) - 1 + n) % 4) + 1]
Counterclockwise(d, n) == Compass[((CompassIndex(d) - 1 + 3 * n) % 4) + 1]

\* the quarter turns a direction encodes: Up none, Right one, Down two and
\* Left three
TurnsRightFirst(other) == CompassIndex(other) - 1

\* the quarter turns a direction encodes: Up none, Left one, Down two and
\* Right three
TurnsLeftFirst(other) == (4 - TurnsRightFirst(other)) % 4

====
